---- MODULE Spec2Model ----
(***************************************************************************)
(* MemoryMonitor (src/lib/MemoryMonitor.js, the class of lines 7-502): a   *)
(* periodic sampler of process memory and CPU usage with bounded history,  *)
(* threshold alerts and a least-squares trend estimate.                    *)
(*                                                                         *)
(* One monitor instance is modelled.  Timer callbacks run to completion    *)
(* (Node's event loop), so each callback is one action.  Time is counted   *)
(* in milliseconds; one main interval of TickMs elapses between two main   *)
(* ticks.  The clock reads 1000 * epoch ms at construction; with epoch 0   *)
(* all arithmetic of the model stays below 2^31, where JavaScript number   *)
(* arithmetic on integers is exact, and with a real epoch the sums of the  *)
(* trend estimate are rounded to double precision as the runtime does.     *)
(***************************************************************************)
EXTENDS Integers, Sequences, FiniteSets, TLC

(* ------------------------------ bounds -------------------------------- *)

MaxCallbacks == 5     \* timer callbacks explored (main and GC together)
MaxStarts == 2        \* successful startMonitoring calls explored
MaxListeners == 3     \* listeners registered on 'thresholdExceeded'
MaxTrendLen == 6      \* longest synthetic history of the trend specification
MaxWindowLen == 11    \* longest history of the trend window specification
MaxEpochOffset == 4    \* construction times explored: EpochBase + 0..MaxEpochOffset s
MaxCpuTime == 4       \* user CPU time up to which getStatistics calls are explored
MaxReportCallbacks == 3   \* timer callbacks explored while the caller reads reports
MaxInterruptTicks == 2   \* main ticks explored around an interrupted campaign
MaxImpactLog == 4     \* main ticks between two clearHistory calls of the long run
MaxImpactTicks == 2   \* main ticks explored before and after the accumulator collapses
MaxTasks == 2             \* takeHeapSnapshot / automaticHeapDump / exportReport calls explored
MaxCampaigns == 2     \* detectLeaks calls explored

(* --------------------------- program constants ------------------------ *)

MinInterval == 1000           \* startMonitoring: interval < 1000 throws
MinTrendSamples == 5          \* analyzeMemoryTrend: history.length < 5 -> null
TrendWindow == 10             \* analyzeMemoryTrend: history.slice(-10)
MsPerSecond == 1000           \* analyzeMemoryTrend: rate = slope / 1000
StableRate == 100             \* analyzeMemoryTrend: Math.abs(rate) < 100
PredictionSeconds == 3600     \* analyzeMemoryTrend: rate * 3600
PerfResetCount == 1000        \* updatePerformanceImpact: count > 1000
MinLeakInterval == 100        \* detectLeaks: Math.max(..., 100)
RapidRate == 10000            \* detectMemoryPressure: trend.rate > 10000
NsPerMs == 1000000            \* getPerformanceImpact: / 1e6
MinDiskSpace == 104857600     \* takeHeapSnapshot: 1024 * 1024 * 100
DefaultDiskSpace == 1073741824    \* checkDiskSpace: 1024 * 1024 * 1024
BytesPerMB == 1048576         \* checkAlertThresholds: heapUsed / 1024 / 1024

Null == 0                     \* JavaScript null for a timer handle; handles are >= 1
TickMs == 1000                \* milliseconds between two main ticks in the model

(* ------------------------------ inputs -------------------------------- *)

\* An optional property of an options object: <<>> is undefined, <<v>> is v.
Undefined == <<>>

ThresholdArgs == {-1, 0, 2}
HistorySizeArgs == {0, 1, 2, 5}
Intervals == {999, 1000}

MemoryUsageOf(h) ==
    [rss |-> h + 2, heapTotal |-> h + 1, heapUsed |-> h, external |-> 1, arrayBuffers |-> 0]

\* process.memoryUsage() and the growth of process.cpuUsage() seen by one tick.
ProcessReadings ==
    { [memoryUsage |-> MemoryUsageOf(2), cpuDelta |-> [user |-> 1, system |-> 0]],
      [memoryUsage |-> MemoryUsageOf(3), cpuDelta |-> [user |-> 2, system |-> 1]] }

\* v8.getHeapStatistics(), opaque to the monitor.
HeapStatistics == { [total_heap_size |-> 4, used_heap_size |-> 2] }

\* process.hrtime(start) of one tick, in nanoseconds.
ElapsedNs == {2000}

Callbacks == {"cbA", "cbB"}

OptionsOf(gc, pred, warn, crit) ==
    [enableGC |-> gc, enablePredictions |-> pred,
     alertThresholds |-> [warning |-> warn, critical |-> crit]]

\* options objects: GC tracking on (default) or off, no alert thresholds
TimerOptions ==
    { OptionsOf(gc, Undefined, Undefined, Undefined) : gc \in {Undefined, <<FALSE>>} }

\* options objects: every combination of warning / critical alert thresholds
AlertOptions ==
    { OptionsOf(<<FALSE>>, <<FALSE>>, w, c) :
        w \in {Undefined, <<2>>}, c \in {Undefined, <<0>>, <<2>>} }

(* ------------------------------ state --------------------------------- *)

VARIABLES
    constructed,        \* the constructor returned an instance
    threshold, maxHistorySize, enableGC, enablePredictions, alertThresholds,
    interval,           \* this.interval: handle of the main timer or Null
    gcTrackingInterval, \* this.gcTrackingInterval: handle of the GC timer or Null
    activeTimers,       \* the runtime's timers that have not been cleared
    nextTimerId,        \* next handle setInterval returns
    history, cpuUsageHistory, gcHistory,
    lastCpuUsage,       \* this.lastCpuUsage
    procCpu,            \* process.cpuUsage(): cumulative CPU time of the process
    performanceImpact,  \* this.performanceImpact
    epoch,              \* Date.now() at construction, in whole seconds
    campaigns,          \* the detectLeaks calls made: the locals of each closure
    held,               \* the array the last report accessor returned to the caller
    tasks,              \* the takeHeapSnapshot / exportReport calls made
    now,                \* Date.now() - 1000 * epoch: milliseconds since construction
    listeners,          \* listeners of 'thresholdExceeded', in registration order
    result,             \* value returned by the last call
    \* history variables of the verification
    ctorArgs,           \* the arguments the constructor was called with
    lastOp,             \* the operation or callback that ran last, with its argument
    thrown,             \* message of the error the last operation threw, or ""
    emitted,            \* events emitted by the last operation, in order
    invoked,            \* listener invocations made by the last operation, in order
    sampled,            \* the readings (process, hrtime) taken by the last main tick,
                        \* and the histories its listeners were shown
    memLog, cpuLog, gcLog,   \* entries appended since construction / clearHistory
    ticks, gcTicks, starts,  \* how many callbacks / calls have run
    stoppedSince,       \* stopMonitoring returned and no startMonitoring succeeded since
    superseded,         \* handles of the timers a startMonitoring call replaced
    registrations       \* the listener registrations made, in call order

configVars == <<constructed, threshold, maxHistorySize, enableGC, enablePredictions,
                alertThresholds, ctorArgs, epoch>>
timerVars == <<interval, gcTrackingInterval, activeTimers, nextTimerId>>
historyVars == <<history, cpuUsageHistory, gcHistory>>
logVars == <<memLog, cpuLog, gcLog>>
cpuVars == <<lastCpuUsage, procCpu>>
leakVars == <<campaigns>>
callerVars == <<held, tasks>>
vars == <<constructed, threshold, maxHistorySize, enableGC, enablePredictions,
          alertThresholds, interval, gcTrackingInterval, activeTimers, nextTimerId,
          history, cpuUsageHistory, gcHistory, lastCpuUsage, procCpu,
          performanceImpact, now, listeners, result, ctorArgs, lastOp, thrown,
          emitted, invoked, sampled, memLog, cpuLog, gcLog, ticks, gcTicks, starts,
          stoppedSince, superseded, registrations, epoch, campaigns, held, tasks>>

(* ------------------------------ helpers ------------------------------- *)

Op(name, arg) == [name |-> name, arg |-> arg]
Event(name, payload) == [name |-> name, payload |-> payload]
NoResult == [kind |-> "undefined"]
\* the caller holds no report
NoReport == [buffer |-> "none", array |-> << >>]

\* JavaScript truthiness of an optional numeric property: undefined and 0 are falsy.
Truthy(opt) == opt # Undefined /\ opt[1] # 0

\* options.enableGC !== false
NotFalse(opt) == opt # <<FALSE>>

ZeroCpu == [user |-> 0, system |-> 0]
CpuAdd(a, b) == [user |-> a.user + b.user, system |-> a.system + b.system]
\* process.cpuUsage(previous): the difference to an earlier reading
CpuDiff(a, b) == [user |-> a.user - b.user, system |-> a.system - b.system]

\* faulty variant of Trim: array.slice(0, max), which keeps the oldest entries
TrimKeepsOldest(h, max) ==
    IF Len(h) > max THEN SubSeq(h, 1, max) ELSE h

\* array.slice(-max) when the array is longer than max
Trim(h, max) ==
    IF Len(h) > max THEN SubSeq(h, Len(h) - max + 1, Len(h)) ELSE h

\* (x).toFixed(2) of x = heapUsed / 1024 / 1024, as a count of hundredths
ToFixed2MB(heapUsed) == (2 * 100 * heapUsed + BytesPerMB) \div (2 * BytesPerMB)

\* x % Number.MAX_SAFE_INTEGER for 0 <= x < 2^53 - 1, the range of the model
ModMaxSafeInteger(x) == x

EventsNamed(evs, name) == SelectSeq(evs, LAMBDA e : e.name = name)
CountNamed(evs, name) == Len(EventsNamed(evs, name))

(* ---------------------------- constructor ----------------------------- *)

\* faulty variant of ThresholdInvalid: if (threshold < 0) throw
ThresholdInvalidNegativeOnly(t) == t < 0

\* constructor: if (threshold <= 0) throw
ThresholdInvalid(t) == t <= 0

\* constructor: if (maxHistorySize < 1) throw
HistorySizeInvalid(m) == m < 1

ConstructorError(t, m) ==
    IF ThresholdInvalid(t) THEN "Threshold must be a positive number"
    ELSE IF HistorySizeInvalid(m) THEN "Max history size must be at least 1"
    ELSE ""

\* new MemoryMonitor(t, m, o): what the constructor leaves, histories apart
Construct(t, m, o) ==
    LET err == ConstructorError(t, m) IN
    /\ ctorArgs = [threshold |-> t, maxHistorySize |-> m]
    /\ thrown = err
    /\ constructed = (err = "")
    /\ threshold = IF err = "" THEN t ELSE 0
    /\ maxHistorySize = IF err = "" THEN m ELSE 0
    /\ enableGC = (err = "" /\ NotFalse(o.enableGC))
    /\ enablePredictions = (err = "" /\ NotFalse(o.enablePredictions))
    /\ alertThresholds = IF err = "" THEN o.alertThresholds
                         ELSE [warning |-> Undefined, critical |-> Undefined]
    /\ interval = Null
    /\ gcTrackingInterval = Null
    /\ activeTimers = {}
    /\ gcHistory = <<>>
    /\ listeners = <<>>
    /\ result = NoResult
    /\ lastOp = Op("constructor", 0)
    /\ emitted = <<>>
    /\ invoked = <<>>
    /\ sampled = NoResult
    /\ gcLog = <<>>
    /\ gcTicks = 0
    /\ superseded = {}
    /\ registrations = << >>
    /\ campaigns = << >>
    /\ held = NoReport
    /\ tasks = << >>

\* new MemoryMonitor(t, m, o): the state right after the constructor returned or threw
Constructor(t, m, o) ==
    /\ Construct(t, m, o)
    /\ history = <<>>
    /\ cpuUsageHistory = <<>>
    /\ memLog = <<>>
    /\ cpuLog = <<>>
    /\ lastCpuUsage = ZeroCpu
    /\ procCpu = ZeroCpu
    /\ performanceImpact = [time |-> 0, count |-> 0]
    /\ now = 0
    /\ ticks = 0
    /\ starts = 0
    /\ nextTimerId = 1
    /\ stoppedSince = FALSE
    /\ epoch = 0

Init ==
    \E t \in ThresholdArgs, m \in HistorySizeArgs, o \in TimerOptions :
        Constructor(t, m, o)

(* ------------------------- start / stop monitoring -------------------- *)

\* faulty variant of IntervalInvalid: if (interval < 100) throw
IntervalInvalidBelow100(i) == i < 100

\* startMonitoring: if (interval < 1000) throw
IntervalInvalid(i) == i < MinInterval

\* faulty variant of MonitoringRunning: the running monitor is never stopped first
MonitoringRunningIgnored == FALSE

\* startMonitoring: if (this.interval) { this.stopMonitoring(); }
MonitoringRunning == interval # Null

\* clearInterval(handle)
ClearInterval(active, handle) == { t \in active : t.id # handle }

\* faulty variant of StopMonitoringEffect: the GC timer is not cleared
StopMonitoringKeepsGcTimer ==
    [interval |-> Null, gcTrackingInterval |-> gcTrackingInterval,
     activeTimers |-> IF interval # Null THEN ClearInterval(activeTimers, interval)
                      ELSE activeTimers]

\* faulty variant of StopMonitoringEffect: the timers are cleared but the
\* handles are not reset to null
StopMonitoringKeepsHandles ==
    LET a1 == IF interval # Null THEN ClearInterval(activeTimers, interval)
              ELSE activeTimers
        a2 == IF gcTrackingInterval # Null THEN ClearInterval(a1, gcTrackingInterval)
              ELSE a1
    IN [interval |-> interval, gcTrackingInterval |-> gcTrackingInterval,
        activeTimers |-> a2]

\* faulty variant of StopMonitoringEffect: every timer of the process is
\* cleared, those of detectLeaks included
StopMonitoringClearsEveryTimer ==
    [interval |-> Null, gcTrackingInterval |-> Null, activeTimers |-> {}]

\* stopMonitoring(): the timer fields and the runtime's timers after the call
StopMonitoringEffect ==
    LET a1 == IF interval # Null THEN ClearInterval(activeTimers, interval)
              ELSE activeTimers
        a2 == IF gcTrackingInterval # Null THEN ClearInterval(a1, gcTrackingInterval)
              ELSE a1
    IN [interval |-> Null, gcTrackingInterval |-> Null, activeTimers |-> a2]

\* faulty variant of GcIntervalMs: the GC timer runs at the main interval
GcIntervalFollowsMain(i) == i

\* trackGarbageCollection: setInterval(..., 5000), whatever startMonitoring's interval i
GcIntervalMs(i) == 5 * MsPerSecond

StartMonitoring(i) ==
    /\ constructed
    /\ lastOp' = Op("startMonitoring", i)
    /\ emitted' = <<>>
    /\ invoked' = <<>>
    /\ result' = NoResult
    /\ IF IntervalInvalid(i)
       THEN /\ thrown' = "Interval must be at least 1000ms"
            /\ UNCHANGED <<timerVars, stoppedSince, starts, superseded>>
       ELSE LET before == IF MonitoringRunning THEN StopMonitoringEffect
                          ELSE [interval |-> interval,
                                gcTrackingInterval |-> gcTrackingInterval,
                                activeTimers |-> activeTimers]
                main == [id |-> nextTimerId, kind |-> "main", ms |-> i]
                \* trackGarbageCollection(): setInterval(..., 5000)
                gc == [id |-> nextTimerId + 1, kind |-> "gc", ms |-> GcIntervalMs(i)]
            IN /\ starts < MaxStarts
               /\ starts' = starts + 1
               /\ thrown' = ""
               /\ interval' = main.id
               /\ gcTrackingInterval' =
                      IF enableGC THEN gc.id ELSE before.gcTrackingInterval
               /\ activeTimers' =
                      before.activeTimers \cup {main} \cup (IF enableGC THEN {gc} ELSE {})
               /\ nextTimerId' = IF enableGC THEN nextTimerId + 2 ELSE nextTimerId + 1
               /\ stoppedSince' = FALSE
               /\ superseded' = IF MonitoringRunning
                                 THEN superseded \cup ({interval, gcTrackingInterval} \ {Null})
                                 ELSE superseded
    /\ UNCHANGED <<configVars, leakVars, callerVars, historyVars, logVars, cpuVars, performanceImpact, now,
                   listeners, sampled, ticks, gcTicks,
                   registrations>>

StopMonitoring ==
    /\ constructed
    /\ lastOp' = Op("stopMonitoring", 0)
    /\ thrown' = ""
    /\ emitted' = <<>>
    /\ invoked' = <<>>
    /\ result' = NoResult
    /\ interval' = StopMonitoringEffect.interval
    /\ gcTrackingInterval' = StopMonitoringEffect.gcTrackingInterval
    /\ activeTimers' = StopMonitoringEffect.activeTimers
    /\ stoppedSince' = TRUE
    /\ UNCHANGED <<configVars, leakVars, callerVars, nextTimerId, historyVars, logVars, cpuVars,
                   performanceImpact, now, listeners, sampled, ticks, gcTicks, starts,
                   superseded,
                   registrations>>

(* ------------------- JavaScript numbers as exact fractions ------------- *)

\* A number is [num, den] in lowest terms with den >= 0; den = 0 stands for the
\* results of a division by zero: 0/0 is NaN, +-1/0 is +-Infinity.

Abs(x) == IF x < 0 THEN -x ELSE x
Sign(x) == IF x < 0 THEN -1 ELSE IF x > 0 THEN 1 ELSE 0

RECURSIVE Gcd(_, _)
Gcd(a, b) == IF b = 0 THEN a ELSE Gcd(b, a % b)

\* a / b
Div(a, b) ==
    IF b = 0 THEN [num |-> Sign(a), den |-> 0]
    ELSE LET g == Gcd(Abs(a), Abs(b)) IN
         [num |-> Sign(b) * (a \div g), den |-> Abs(b) \div g]

IsNaN(r) == r.den = 0 /\ r.num = 0

\* r / k, for an integer k > 0
DivInt(r, k) ==
    IF r.den = 0 THEN r
    ELSE LET g == Gcd(Abs(r.num), k) IN
         [num |-> r.num \div g, den |-> r.den * (k \div g)]

\* r * k, for an integer k > 0
MulInt(r, k) ==
    IF r.den = 0 THEN r
    ELSE LET g == Gcd(r.den, k) IN
         [num |-> r.num * (k \div g), den |-> r.den \div g]

\* k + r, for an integer k
AddInt(k, r) ==
    IF r.den = 0 THEN r ELSE [num |-> k * r.den + r.num, den |-> r.den]

\* Math.abs(r) < k, for an integer k > 0 (false for NaN and Infinity)
AbsLess(r, k) == r.den # 0 /\ (Abs(r.num) \div r.den) < k

\* r > 0 (false for NaN)
Positive(r) == r.num > 0

\* Math.max(0, r): NaN stays NaN
Max0(r) ==
    IF IsNaN(r) THEN r ELSE IF r.num < 0 THEN [num |-> 0, den |-> 1] ELSE r

Min2(a, b) == IF a < b THEN a ELSE b

RECURSIVE SumSeq(_)
SumSeq(s) == IF s = <<>> THEN 0 ELSE s[1] + SumSeq(Tail(s))

(* ---------------- double precision on non-negative integers ----------- *)

\* A non-negative integer of any size is the sequence of its digits to the
\* base 2^15, lowest first, without leading zeros; 0 is << >>.  A double holds
\* 53 significant bits: a sum or product of integers is the exact result
\* rounded to 53 bits, ties to even.

MantissaBits == 53
DigitBits == 15
Base == 2 ^ DigitBits

RECURSIVE ToDigits(_)
ToDigits(n) == IF n = 0 THEN << >> ELSE << n % Base >> \o ToDigits(n \div Base)

Rest(x) == IF x = << >> THEN << >> ELSE Tail(x)
Low(x) == IF x = << >> THEN 0 ELSE x[1]
Shifted(x) == IF x = << >> THEN << >> ELSE << 0 >> \o x

RECURSIVE StripZeros(_)
StripZeros(x) ==
    IF x = << >> \/ x[Len(x)] # 0 THEN x ELSE StripZeros(SubSeq(x, 1, Len(x) - 1))

\* x + y + carry
RECURSIVE AddDigits(_, _, _)
AddDigits(x, y, carry) ==
    IF x = << >> /\ y = << >> THEN (IF carry = 0 THEN << >> ELSE << carry >>)
    ELSE LET s == Low(x) + Low(y) + carry IN
         << s % Base >> \o AddDigits(Rest(x), Rest(y), s \div Base)

\* x * d + carry, for one digit d
RECURSIVE MulDigit(_, _, _)
MulDigit(x, d, carry) ==
    IF x = << >> THEN (IF carry = 0 THEN << >> ELSE << carry >>)
    ELSE LET p == x[1] * d + carry IN
         << p % Base >> \o MulDigit(Tail(x), d, p \div Base)

\* x * y
RECURSIVE MulDigits(_, _)
MulDigits(x, y) ==
    IF x = << >> \/ y = << >> THEN << >>
    ELSE StripZeros(AddDigits(MulDigit(y, x[1], 0), Shifted(MulDigits(Tail(x), y)), 0))

\* x < y
LessDigits(x, y) ==
    \/ Len(x) < Len(y)
    \/ /\ Len(x) = Len(y)
       /\ \E i \in 1..Len(x) :
             /\ x[i] < y[i]
             /\ \A j \in (i + 1)..Len(x) : x[j] = y[j]

\* the digits of x - y - borrow, for x >= y, before leading zeros are removed
RECURSIVE SubDigits(_, _, _)
SubDigits(x, y, borrow) ==
    IF x = << >> THEN << >>
    ELSE LET d == x[1] - Low(y) - borrow IN
         << d % Base >> \o SubDigits(Tail(x), Rest(y), IF d < 0 THEN 1 ELSE 0)

\* the number of bits of x, and its bit i (bit 0 is the lowest)
BitLen(x) ==
    IF x = << >> THEN 0
    ELSE DigitBits * (Len(x) - 1)
           + (CHOOSE k \in 1..DigitBits : 2 ^ (k - 1) <= x[Len(x)] /\ x[Len(x)] < 2 ^ k)
Bit(x, i) == (x[(i \div DigitBits) + 1] \div (2 ^ (i % DigitBits))) % 2

\* x with its bits below bit `drop` cleared
Truncated(x, drop) ==
    [j \in 1..Len(x) |->
        LET low == DigitBits * (j - 1) IN
        IF low >= drop THEN x[j]
        ELSE IF low + DigitBits <= drop THEN 0
        ELSE x[j] - (x[j] % (2 ^ (drop - low)))]

\* 2^k
PowerOfTwo(k) == [j \in 1..((k \div DigitBits) + 1) |->
                    IF j = (k \div DigitBits) + 1 THEN 2 ^ (k % DigitBits) ELSE 0]

\* the nearest integer of 53 significant bits, ties to even
Round53(x) ==
    IF BitLen(x) <= MantissaBits THEN x
    ELSE LET drop == BitLen(x) - MantissaBits
             half == Bit(x, drop - 1) = 1
             sticky == \E i \in 0..(drop - 2) : Bit(x, i) = 1
             up == half /\ (sticky \/ Bit(x, drop) = 1)
         IN IF up THEN AddDigits(Truncated(x, drop), PowerOfTwo(drop), 0)
            ELSE Truncated(x, drop)

\* x + y and x * y of doubles holding non-negative integers
FlAdd(x, y) == Round53(AddDigits(x, y, 0))
FlMul(x, y) == Round53(MulDigits(x, y))

\* x - y of doubles holding non-negative integers: a sign and a magnitude
FlSub(x, y) ==
    IF LessDigits(x, y) THEN [sign |-> -1, mag |-> Round53(StripZeros(SubDigits(y, x, 0)))]
    ELSE IF x = y THEN [sign |-> 0, mag |-> << >>]
    ELSE [sign |-> 1, mag |-> Round53(StripZeros(SubDigits(x, y, 0)))]

\* array.reduce((sum, x) => sum + x, 0) over doubles
RECURSIVE FlSum(_)
FlSum(s) == IF s = << >> THEN << >> ELSE FlAdd(FlSum(SubSeq(s, 1, Len(s) - 1)), s[Len(s)])

\* the number of zero bits below the lowest one bit of x # 0
TrailingZeros(x) ==
    CHOOSE z \in 0..(BitLen(x) - 1) :
        Bit(x, z) = 1 /\ \A i \in 0..(z - 1) : Bit(x, i) = 0

\* x / 2^z as an integer of the model, for x a multiple of 2^z
RECURSIVE ShiftedDown(_, _, _)
ShiftedDown(x, z, i) ==
    IF i >= BitLen(x) THEN 0 ELSE Bit(x, i) * (2 ^ (i - z)) + ShiftedDown(x, z, i + 1)

\* x / y of two signed integers held by doubles: powers of two common to both
\* are cancelled, and the quotient is kept as a fraction
FlDiv(x, y) ==
    IF y.sign = 0 THEN [num |-> x.sign, den |-> 0]
    ELSE IF x.sign = 0 THEN [num |-> 0, den |-> 1]
    ELSE LET z == Min2(TrailingZeros(x.mag), TrailingZeros(y.mag)) IN
         Div(x.sign * ShiftedDown(x.mag, z, z), y.sign * ShiftedDown(y.mag, z, z))

\* the greatest common divisor of the numbers of s, 1 if all are 0
RECURSIVE GcdSeq(_)
GcdSeq(s) == IF s = <<>> THEN 0 ELSE Gcd(s[1], GcdSeq(Tail(s)))
CommonFactor(s) == IF GcdSeq(s) = 0 THEN 1 ELSE GcdSeq(s)

(* ------------------------------ trend ---------------------------------- *)

NullTrend == [kind |-> "null"]

\* faulty variant of RecentWindow: the whole history, without slice(-10)
RecentWindowWhole(h) == h

\* analyzeMemoryTrend: this.history.slice(-10)
RecentWindow(h) == Trim(h, TrendWindow)

\* analyzeMemoryTrend: const rate = slope / 1000
RateOfSlope(slope) == DivInt(slope, MsPerSecond)

\* analyzeMemoryTrend: the direction of a rate
DirectionOf(rate) ==
    IF AbsLess(rate, StableRate) THEN "stable"
    ELSE IF Positive(rate) THEN "increasing" ELSE "decreasing"

\* Date.now() of the sample taken ms milliseconds after construction
ClockDigits(ms) ==
    AddDigits(MulDigits(ToDigits(epoch), ToDigits(MsPerSecond)), ToDigits(ms), 0)

\* analyzeMemoryTrend: n * sumXY - sumX * sumY, every sum and product rounded
\* to a double
SlopeNumerator(times, values) ==
    LET n == Len(times)
        xs == [i \in 1..n |-> ClockDigits(times[i])]
        ys == [i \in 1..n |-> ToDigits(values[i])]
        sumX == FlSum(xs)
        sumY == FlSum(ys)
        sumXY == FlSum([i \in 1..n |-> FlMul(xs[i], ys[i])])
    IN FlSub(FlMul(ToDigits(n), sumXY), FlMul(sumX, sumY))

\* analyzeMemoryTrend: n * sumXX - sumX * sumX, every sum and product rounded
\* to a double
SlopeDenominator(times) ==
    LET n == Len(times)
        xs == [i \in 1..n |-> ClockDigits(times[i])]
        sumX == FlSum(xs)
        sumXX == FlSum([i \in 1..n |-> FlMul(xs[i], xs[i])])
    IN FlSub(FlMul(ToDigits(n), sumXX), FlMul(sumX, sumX))

\* analyzeMemoryTrend: the slope computed in double precision
SlopeOfDoubles(times, values) ==
    FlDiv(SlopeNumerator(times, values), SlopeDenominator(times))

\* analyzeMemoryTrend() on the memory history h
AnalyzeMemoryTrend(h) ==
    IF Len(h) < MinTrendSamples THEN NullTrend
    ELSE LET recent == RecentWindow(h)
             n == Len(recent)
             times == [i \in 1..n |-> recent[i].timestamp]
             values == [i \in 1..n |-> recent[i].memoryUsage.heapUsed]
             \* the sums are taken over times / g, g the common factor of the
             \* times: the quotient below is the same number and its terms stay
             \* below 2^31
             g == CommonFactor(times)
             sumX == SumSeq([i \in 1..n |-> times[i] \div g])
             sumY == SumSeq(values)
             sumXY == SumSeq([i \in 1..n |-> (times[i] \div g) * values[i]])
             sumXX == SumSeq([i \in 1..n |-> (times[i] \div g) * (times[i] \div g)])
             exact == DivInt(Div(n * sumXY - sumX * sumY, n * sumXX - sumX * sumX), g)
             slope == IF epoch = 0 THEN exact ELSE SlopeOfDoubles(times, values)
             rate == RateOfSlope(slope)
             currentMemory == values[n]
             prediction == AddInt(currentMemory, MulInt(rate, PredictionSeconds))
         IN [kind |-> "trend",
             direction |-> DirectionOf(rate),
             rate |-> rate,
             prediction |-> Max0(prediction)]

(* ------------------------------ events --------------------------------- *)

\* the listener notifyOnThresholdExceeded registers, called with the payload
NotifyInvocation(l, memoryUsage) ==
    [kind |-> "notify", cb |-> l.cb,
     arg |-> [text |-> "Memory threshold exceeded: ", json |-> memoryUsage]]

\* emit('thresholdExceeded', memoryUsage): every listener, in registration order
InvokeListeners(ls, memoryUsage) ==
    [i \in 1..Len(ls) |->
        IF ls[i].kind = "notify" THEN NotifyInvocation(ls[i], memoryUsage)
        ELSE [kind |-> "listener", cb |-> ls[i].cb, arg |-> memoryUsage]]

\* faulty variant of ExceedsThreshold: heapUsed >= this.threshold
ExceedsThresholdOrEqual(heapUsed, limit) == heapUsed >= limit

\* tick: if (memoryUsage.heapUsed > this.threshold)
ExceedsThreshold(heapUsed, limit) == heapUsed > limit

\* checkAlertThresholds: this.alertThresholds.critical && heapUsed > critical
CriticalBreached(heapUsed) ==
    Truthy(alertThresholds.critical) /\ heapUsed > alertThresholds.critical[1]

\* checkAlertThresholds: this.alertThresholds.warning && heapUsed > warning
WarningBreached(heapUsed) ==
    Truthy(alertThresholds.warning) /\ heapUsed > alertThresholds.warning[1]

AlertInfo(type, text, memoryUsage) ==
    [type |-> type, memoryUsage |-> memoryUsage,
     message |-> [text |-> text, mb |-> ToFixed2MB(memoryUsage.heapUsed)]]

\* checkAlertThresholds(memoryUsage): the events it emits
CheckAlertThresholds(memoryUsage) ==
    IF CriticalBreached(memoryUsage.heapUsed)
    THEN << Event("criticalAlert",
                  AlertInfo("critical", "Critical memory threshold exceeded: ", memoryUsage)) >>
    ELSE IF WarningBreached(memoryUsage.heapUsed)
    THEN << Event("warningAlert",
                  AlertInfo("warning", "Warning: Memory usage high: ", memoryUsage)) >>
    ELSE << >>

\* tick: the threshold check
ThresholdEvents(memoryUsage) ==
    IF ExceedsThreshold(memoryUsage.heapUsed, threshold)
    THEN << Event("thresholdExceeded", memoryUsage) >>
    ELSE << >>

\* faulty variant of StatsEvents: cpuStats carries the cumulative reading, not the delta
StatsEventsCumulativeCpu(memoryUsage, cpuUsage) ==
    << Event("memoryStats", memoryUsage), Event("cpuStats", CpuAdd(lastCpuUsage, cpuUsage)) >>

\* tick: emit('memoryStats', memoryUsage); emit('cpuStats', cpuUsage)
StatsEvents(memoryUsage, cpuUsage) ==
    << Event("memoryStats", memoryUsage), Event("cpuStats", cpuUsage) >>

\* faulty variant of TrendEvents: the enablePredictions option is not consulted
TrendEventsAlways(h) ==
    IF Len(h) >= MinTrendSamples
    THEN LET trend == AnalyzeMemoryTrend(h) IN
         IF trend.kind # "null" THEN << Event("memoryTrend", trend) >> ELSE << >>
    ELSE << >>

\* tick: the trend analysis, on the history after this tick's append
TrendEvents(h) ==
    IF enablePredictions /\ Len(h) >= MinTrendSamples
    THEN LET trend == AnalyzeMemoryTrend(h) IN
         IF trend.kind # "null" THEN << Event("memoryTrend", trend) >> ELSE << >>
    ELSE << >>

\* faulty variant of UpdatePerformanceImpact: collapses when the count reaches
\* the limit instead of when it passes it
UpdatePerformanceImpactEarly(p, nanoseconds) ==
    LET time == ModMaxSafeInteger(p.time + nanoseconds)
        count == p.count + 1
    IN IF count >= PerfResetCount
       THEN [time |-> time \div count, count |-> 1]
       ELSE [time |-> time, count |-> count]

\* updatePerformanceImpact(hrtime)
UpdatePerformanceImpact(p, nanoseconds) ==
    LET time == ModMaxSafeInteger(p.time + nanoseconds)
        count == p.count + 1
    IN IF count > PerfResetCount
       THEN [time |-> time \div count, count |-> 1]
       ELSE [time |-> time, count |-> count]

\* faulty variant of AfterListeners: the callback returns once it was stopped
AfterListenersUnlessStopped(stopped, events) == IF stopped THEN << >> ELSE events

\* tick: what the callback emits after emit('thresholdExceeded') returned,
\* whether or not a listener stopped the monitor meanwhile
AfterListeners(stopped, events) == events

\* what this.history[this.history.length - 1] finds: the last entry, if any
Newest(h) == IF h = << >> THEN << >> ELSE << h[Len(h)] >>

\* faulty variant of HistoriesAtEmit: the samples are appended after the events
HistoriesBeforeAppend(before, after) == before

\* tick: this.history and this.cpuUsageHistory as the listeners of the tick's
\* events find them: the push and slice (lines 40-48) precede the first emit
HistoriesAtEmit(before, after) == after

(* --------------------------- timer callbacks --------------------------- *)

\* the callback of the main timer t (startMonitoring, lines 34-72), run to
\* completion when Date.now() - 1000 * epoch is timestamp; process.hrtime(start)
\* measures nanoseconds for it
TickCallback(t, timestamp, nanoseconds) ==
    /\ constructed
    /\ t \in activeTimers
    /\ t.kind = "main"
    /\ \E reading \in ProcessReadings :
        LET memoryUsage == reading.memoryUsage
            cpuNow == CpuAdd(procCpu, reading.cpuDelta)
            \* getCpuUsage()
            cpuUsage == CpuDiff(cpuNow, lastCpuUsage)
            memEntry == [timestamp |-> timestamp, memoryUsage |-> memoryUsage]
            cpuEntry == [timestamp |-> timestamp, cpuUsage |-> cpuUsage]
            h == Trim(Append(history, memEntry), maxHistorySize)
            c == Trim(Append(cpuUsageHistory, cpuEntry), maxHistorySize)
            first == ThresholdEvents(memoryUsage)
            called == IF first # << >> THEN InvokeListeners(listeners, memoryUsage)
                      ELSE << >>
            \* a listener of 'thresholdExceeded' called this.stopMonitoring()
            stopped == \E i \in DOMAIN called : called[i].cb = "stopMonitoring"
            seen == HistoriesAtEmit([history |-> history, cpuUsageHistory |-> cpuUsageHistory],
                                    [history |-> h, cpuUsageHistory |-> c])
        IN /\ now' = timestamp
           /\ procCpu' = cpuNow
           /\ lastCpuUsage' = cpuNow
           /\ history' = h
           /\ cpuUsageHistory' = c
           /\ emitted' = first \o AfterListeners(stopped,
                                                 CheckAlertThresholds(memoryUsage)
                                                   \o StatsEvents(memoryUsage, cpuUsage)
                                                   \o TrendEvents(h))
           /\ invoked' = called
           /\ interval' = IF stopped THEN StopMonitoringEffect.interval ELSE interval
           /\ gcTrackingInterval' = IF stopped THEN StopMonitoringEffect.gcTrackingInterval
                                    ELSE gcTrackingInterval
           /\ activeTimers' = IF stopped THEN StopMonitoringEffect.activeTimers
                              ELSE activeTimers
           /\ stoppedSince' = (stopped \/ stoppedSince)
           /\ performanceImpact' = UpdatePerformanceImpact(performanceImpact, nanoseconds)
           /\ sampled' = [timer |-> t.id, memoryUsage |-> memoryUsage, cpuUsage |-> cpuUsage,
                         elapsed |-> nanoseconds,
                         seen |-> [newest |-> Newest(seen.history),
                                   newestCpu |-> Newest(seen.cpuUsageHistory),
                                   untrimmed |-> \/ Len(seen.history) > maxHistorySize
                                                 \/ Len(seen.cpuUsageHistory) > maxHistorySize]]
           /\ memLog' = Append(memLog, memEntry)
           /\ cpuLog' = Append(cpuLog, cpuEntry)
    /\ ticks' = ticks + 1
    /\ lastOp' = Op("tick", t.id)
    /\ thrown' = ""
    /\ result' = NoResult
    /\ UNCHANGED <<configVars, leakVars, callerVars, nextTimerId, gcHistory, gcLog, listeners,
                   gcTicks, starts, superseded, registrations>>

\* the callback of the main timer t when Date.now() - 1000 * epoch is timestamp
TickAt(t, timestamp) ==
    /\ ticks + gcTicks < MaxCallbacks
    /\ \E nanoseconds \in ElapsedNs : TickCallback(t, timestamp, nanoseconds)

\* the callback of the main timer t, TickMs after the last one
Tick(t) == TickAt(t, now + TickMs)

\* faulty variant of GcTickHistories: the snapshot is pushed to this.history
GcTickWritesHistory(gcEntry) ==
    [history |-> Trim(Append(history, gcEntry), maxHistorySize),
     cpuUsageHistory |-> cpuUsageHistory,
     gcHistory |-> gcHistory]

\* the three buffers after the GC callback pushed gcEntry and trimmed
GcTickHistories(gcEntry) ==
    [history |-> history,
     cpuUsageHistory |-> cpuUsageHistory,
     gcHistory |-> Trim(Append(gcHistory, gcEntry), maxHistorySize)]

\* the callback of the GC timer t (trackGarbageCollection, lines 260-272), run
\* when Date.now() - 1000 * epoch is time
GcTickAt(t, time) ==
    /\ constructed
    /\ t \in activeTimers
    /\ t.kind = "gc"
    /\ ticks + gcTicks < MaxCallbacks
    /\ \E gcStats \in HeapStatistics :
        LET gcEntry == [timestamp |-> time, gcStats |-> gcStats] IN
        /\ history' = GcTickHistories(gcEntry).history
        /\ cpuUsageHistory' = GcTickHistories(gcEntry).cpuUsageHistory
        /\ gcHistory' = GcTickHistories(gcEntry).gcHistory
        /\ gcLog' = Append(gcLog, gcEntry)
        /\ emitted' = << Event("gcStats", gcStats) >>
    /\ gcTicks' = gcTicks + 1
    /\ lastOp' = Op("gcTick", t.id)
    /\ thrown' = ""
    /\ invoked' = << >>
    /\ result' = NoResult
    /\ now' = time
    /\ UNCHANGED <<configVars, leakVars, callerVars, timerVars, memLog, cpuLog,
                   cpuVars, performanceImpact, listeners, sampled, ticks, starts,
                   stoppedSince, superseded,
                   registrations>>

(* ----------------------------- other calls ----------------------------- *)

\* faulty variant of ClearedHistories: the CPU history is not reset
ClearedHistoriesButCpu ==
    [history |-> << >>, gcHistory |-> << >>, cpuUsageHistory |-> cpuUsageHistory]

\* clearHistory(): the three buffers after the call
ClearedHistories ==
    [history |-> << >>, gcHistory |-> << >>, cpuUsageHistory |-> << >>]

ClearHistory ==
    /\ constructed
    /\ history' = ClearedHistories.history
    /\ gcHistory' = ClearedHistories.gcHistory
    /\ cpuUsageHistory' = ClearedHistories.cpuUsageHistory
    \* the entries the caller holds are no longer entries of a buffer
    /\ held' = [held EXCEPT !.array = [i \in DOMAIN held.array |->
                                         [ref |-> 0, value |-> held.array[i].value]]]
    /\ UNCHANGED tasks
    /\ memLog' = << >>
    /\ cpuLog' = << >>
    /\ gcLog' = << >>
    /\ lastOp' = Op("clearHistory", 0)
    /\ thrown' = ""
    /\ emitted' = << >>
    /\ invoked' = << >>
    /\ result' = NoResult
    /\ UNCHANGED <<configVars, leakVars, timerVars, cpuVars, performanceImpact, now, listeners,
                   sampled, ticks, gcTicks, starts, stoppedSince, superseded,
                   registrations>>

\* the callback of the GC timer t, at the time of the last callback
GcTick(t) == GcTickAt(t, now)

(* --------------------------- report accessors ------------------------- *)

Buffers == {"memory", "cpu", "gc"}

BufferOf(buffer) ==
    CASE buffer = "memory" -> history
      [] buffer = "cpu" -> cpuUsageHistory
      [] buffer = "gc" -> gcHistory

\* how many entries were pushed to the buffer before its present first entry:
\* entry i of the buffer is the object pushed as number Evicted(buffer) + i
Evicted(buffer) ==
    CASE buffer = "memory" -> Len(memLog) - Len(history)
      [] buffer = "cpu" -> Len(cpuLog) - Len(cpuUsageHistory)
      [] buffer = "gc" -> Len(gcLog) - Len(gcHistory)

AccessorName(buffer) ==
    CASE buffer = "memory" -> "getMemoryUsageReport"
      [] buffer = "cpu" -> "getCpuUsageReport"
      [] buffer = "gc" -> "getGCReport"

\* [...h]: a new array of the same entries, in the same order
SpreadCopy(h) == h

\* getMemoryUsageReport() / getCpuUsageReport() / getGCReport(): the caller
\* receives a new array whose elements are the entry objects of the buffer
GetReport(buffer) ==
    /\ constructed
    /\ result' = [kind |-> "report", array |-> SpreadCopy(BufferOf(buffer))]
    /\ held' = [buffer |-> buffer,
                array |-> [i \in DOMAIN SpreadCopy(BufferOf(buffer)) |->
                             [ref |-> Evicted(buffer) + i,
                              value |-> SpreadCopy(BufferOf(buffer))[i]]]]
    /\ lastOp' = Op(AccessorName(buffer), 0)
    /\ thrown' = ""
    /\ emitted' = << >>
    /\ invoked' = << >>
    /\ UNCHANGED <<configVars, leakVars, tasks, timerVars, historyVars, logVars, cpuVars,
                   performanceImpact, now, listeners, sampled, ticks, gcTicks, starts,
                   stoppedSince, superseded, registrations>>

\* the caller removes the last element of the array it holds: report.pop()
PopHeldArray ==
    /\ constructed
    /\ held.array # << >>
    /\ held' = [held EXCEPT !.array = SubSeq(held.array, 1, Len(held.array) - 1)]
    /\ lastOp' = Op("report.pop", 0)
    /\ thrown' = ""
    /\ emitted' = << >>
    /\ invoked' = << >>
    /\ result' = NoResult
    /\ UNCHANGED <<configVars, leakVars, tasks, timerVars, historyVars, logVars, cpuVars,
                   performanceImpact, now, listeners, sampled, ticks, gcTicks, starts,
                   stoppedSince, superseded, registrations>>

\* the buffer after the object pushed as number ref had its timestamp set to
\* stamp: the object is an entry of the buffer unless it was evicted
WithEntryStamped(h, evicted, ref, stamp) ==
    [i \in DOMAIN h |-> IF evicted + i = ref THEN [h[i] EXCEPT !.timestamp = stamp]
                         ELSE h[i]]

\* the caller writes an entry of the array it holds: report[j].timestamp = stamp
StampHeldEntry(j, stamp) ==
    /\ constructed
    /\ j \in DOMAIN held.array
    /\ held' = [held EXCEPT !.array[j].value.timestamp = stamp]
    /\ LET ref == held.array[j].ref IN
         /\ history' = IF held.buffer = "memory"
                        THEN WithEntryStamped(history, Evicted("memory"), ref, stamp)
                        ELSE history
         /\ cpuUsageHistory' = IF held.buffer = "cpu"
                                THEN WithEntryStamped(cpuUsageHistory, Evicted("cpu"), ref, stamp)
                                ELSE cpuUsageHistory
         /\ gcHistory' = IF held.buffer = "gc"
                          THEN WithEntryStamped(gcHistory, Evicted("gc"), ref, stamp)
                          ELSE gcHistory
    /\ lastOp' = Op("report[j].timestamp=", j)
    /\ thrown' = ""
    /\ emitted' = << >>
    /\ invoked' = << >>
    /\ result' = NoResult
    /\ UNCHANGED <<configVars, leakVars, tasks, timerVars, logVars, cpuVars,
                   performanceImpact, now, listeners, sampled, ticks, gcTicks, starts,
                   stoppedSince, superseded, registrations>>

\* faulty variant of AddNotifyListener: the new callback replaces the registered ones
AddNotifyListenerReplacing(ls, cb) == << [kind |-> "notify", cb |-> cb] >>

\* notifyOnThresholdExceeded: this.on('thresholdExceeded', wrapper)
AddNotifyListener(ls, cb) == Append(ls, [kind |-> "notify", cb |-> cb])

Register(name, ls, registration) ==
    /\ constructed
    /\ Len(registrations) < MaxListeners
    /\ listeners' = ls
    /\ registrations' = Append(registrations, registration)
    /\ lastOp' = Op(name, 0)
    /\ thrown' = ""
    /\ emitted' = << >>
    /\ invoked' = << >>
    /\ result' = NoResult
    /\ UNCHANGED <<configVars, leakVars, callerVars, timerVars, historyVars, logVars, cpuVars,
                   performanceImpact, now, sampled, ticks, gcTicks, starts,
                   stoppedSince, superseded>>

NotifyOnThresholdExceeded(cb) ==
    Register("notifyOnThresholdExceeded", AddNotifyListener(listeners, cb),
             [kind |-> "notify", cb |-> cb])

\* monitor.on('thresholdExceeded', listener) of EventEmitter
OnThresholdExceeded ==
    Register("on", Append(listeners, [kind |-> "listener", cb |-> "listener"]),
             [kind |-> "listener", cb |-> "listener"])

\* monitor.on('thresholdExceeded', () => monitor.stopMonitoring())
OnThresholdExceededStop ==
    Register("on", Append(listeners, [kind |-> "listener", cb |-> "stopMonitoring"]),
             [kind |-> "listener", cb |-> "stopMonitoring"])

\* analyzeMemoryTrend() called by the user
AnalyzeMemoryTrendCall ==
    /\ constructed
    /\ result' = AnalyzeMemoryTrend(history)
    /\ lastOp' = Op("analyzeMemoryTrend", 0)
    /\ thrown' = ""
    /\ emitted' = << >>
    /\ invoked' = << >>
    /\ UNCHANGED <<configVars, leakVars, callerVars, timerVars, historyVars, logVars, cpuVars,
                   performanceImpact, now, listeners, sampled, ticks, gcTicks, starts,
                   stoppedSince, superseded,
                   registrations>>

(* ---------------------------- leak detection -------------------------- *)

\* r > q for two numbers with positive denominators
Greater(r, q) == r.num * q.den > q.num * r.den
\* r >= q for two numbers with positive denominators
AtLeastNumber(r, q) == r.num * q.den >= q.num * r.den

\* Math.floor(a / b) for b # 0
FloorQuotient(a, b) == IF b > 0 THEN a \div b ELSE (-a) \div (-b)

\* detectLeaks: Math.max(Math.floor(duration / samples), 100); with samples = 0
\* the quotient is not finite and setInterval runs the timer every 1 ms
LeakInterval(duration, samples) ==
    IF samples = 0 THEN 1
    ELSE IF FloorQuotient(duration, samples) > MinLeakInterval
         THEN FloorQuotient(duration, samples)
         ELSE MinLeakInterval

\* analyzeTrend(measurements)
AnalyzeTrend(measurements) ==
    IF Len(measurements) < 2 THEN [num |-> 0, den |-> 1]
    ELSE LET start == measurements[1]
             end == measurements[Len(measurements)]
         IN Div(end - start, start)

\* faulty variant of CalculateLeakSeverity: the bands compared with > instead of >=
CalculateLeakSeverityStrict(trend) ==
    IF Greater(trend, [num |-> 1, den |-> 2]) THEN "critical"
    ELSE IF Greater(trend, [num |-> 3, den |-> 10]) THEN "high"
    ELSE IF Greater(trend, [num |-> 15, den |-> 100]) THEN "medium"
    ELSE "low"

\* calculateLeakSeverity(trend)
CalculateLeakSeverity(trend) ==
    IF AtLeastNumber(trend, [num |-> 1, den |-> 2]) THEN "critical"
    ELSE IF AtLeastNumber(trend, [num |-> 3, den |-> 10]) THEN "high"
    ELSE IF AtLeastNumber(trend, [num |-> 15, den |-> 100]) THEN "medium"
    ELSE "low"

\* x.toFixed(2) of a number x, as a count of hundredths
ToFixed2(x) ==
    Sign(x.num) * ((2 * 100 * Abs(x.num) + x.den) \div (2 * x.den))

\* getLeakSuggestions(initialHeapSize, finalHeapSize)
GetLeakSuggestions(initialHeapSize, finalHeapSize) ==
    LET increase == MulInt(Div(finalHeapSize - initialHeapSize, initialHeapSize), 100)
    IN << [text |-> "Memory increased by % over the monitored period.",
           percent |-> ToFixed2(increase)],
          [text |-> "Consider checking for:"],
          [text |-> "1. Unclosed resources (e.g., file handles, database connections)"],
          [text |-> "2. Accumulating cache or large object stores"],
          [text |-> "3. Event listeners that are not being removed"],
          [text |-> "4. Circular references preventing garbage collection"],
          [text |-> "5. Large arrays or objects that are never cleared"],
          [text |-> "6. Timers or intervals that are not cleared"] >>

\* faulty variant of LeakFound: trend >= threshold
LeakFoundOrEqual(trend, limit) == AtLeastNumber(trend, limit)

\* detectLeaks: trend > threshold
LeakFound(trend, limit) == Greater(trend, limit)

\* detectLeaks: the payload of 'leakDetected'
LeakPayload(measurements, trend) ==
    [message |-> "Potential memory leak detected",
     trend |-> trend,
     measurements |-> measurements,
     suggestions |-> GetLeakSuggestions(measurements[1], measurements[Len(measurements)]),
     severity |-> CalculateLeakSeverity(trend)]

\* faulty variant of Pushed: one measurements array shared by all campaigns
PushedToAll(cs, i, heapUsed) ==
    [j \in DOMAIN cs |-> [cs[j] EXCEPT !.measurements = Append(@, heapUsed)]]

\* detectLeaks: measurements.push(heapUsed) in the callback of campaign i
Pushed(cs, i, heapUsed) ==
    [cs EXCEPT ![i].measurements = Append(@, heapUsed)]

\* faulty variant of Resolves: resolve() inside the if (trend > threshold) block
ResolvesOnlyWhenFound(found) == found

\* detectLeaks: resolve() follows the if statement, whatever the outcome
Resolves(found) == TRUE

\* faulty variant of LeakTimerCleared: the timer is never cleared
LeakTimerKept(active, campaign) == active

\* faulty variant of LeakTimerCleared: the campaign ends with this.stopMonitoring()
LeakTimerClearedWithMonitor(active, campaign) ==
    { t \in active : t.id \notin {campaign.measureInterval, interval, gcTrackingInterval} }

\* detectLeaks: clearInterval(measureInterval) in the callback of a campaign
LeakTimerCleared(active, campaign) == ClearInterval(active, campaign.measureInterval)

\* detectLeaks(duration, threshold, samples): the promise is returned with the
\* timer set and nothing measured yet
DetectLeaks(duration, limit, samples) ==
    /\ constructed
    /\ Len(campaigns) < MaxCampaigns
    /\ LET timer == [id |-> nextTimerId, kind |-> "leak",
                     ms |-> LeakInterval(duration, samples)]
       IN /\ campaigns' = Append(campaigns,
                 [duration |-> duration, threshold |-> limit, samples |-> samples,
                  measureInterval |-> timer.id, measurements |-> << >>,
                  measurementCount |-> 0, resolved |-> FALSE,
                  \* history of the verification: the readings its own callback
                  \* took and the 'leakDetected' events it emitted
                  taken |-> << >>, emissions |-> 0])
          /\ activeTimers' = activeTimers \cup {timer}
          /\ nextTimerId' = nextTimerId + 1
    /\ result' = [kind |-> "promise", campaign |-> Len(campaigns) + 1]
    /\ lastOp' = Op("detectLeaks", Len(campaigns) + 1)
    /\ thrown' = ""
    /\ emitted' = << >>
    /\ invoked' = << >>
    /\ UNCHANGED <<configVars, callerVars, interval, gcTrackingInterval, historyVars, logVars,
                   cpuVars, performanceImpact, now, listeners, sampled, ticks, gcTicks,
                   starts, stoppedSince, superseded, registrations>>

\* the callback of the timer of campaign i (detectLeaks, lines 185-206), which
\* reads heapUsed from process.memoryUsage()
LeakTick(i, heapUsed) ==
    /\ constructed
    /\ i \in DOMAIN campaigns
    /\ \E t \in activeTimers : t.id = campaigns[i].measureInterval
    /\ LET pushed == Pushed(campaigns, i, heapUsed)
           measurements == pushed[i].measurements
           measurementCount == campaigns[i].measurementCount + 1
           counted == [pushed EXCEPT ![i].measurementCount = measurementCount,
                                     ![i].taken = Append(@, heapUsed)]
           trend == AnalyzeTrend(measurements)
       IN IF measurementCount >= campaigns[i].samples
          THEN /\ activeTimers' = LeakTimerCleared(activeTimers, campaigns[i])
               /\ emitted' = IF LeakFound(trend, campaigns[i].threshold)
                             THEN << Event("leakDetected", LeakPayload(measurements, trend)) >>
                             ELSE << >>
               /\ campaigns' = [counted EXCEPT
                                  ![i].resolved = Resolves(LeakFound(trend, campaigns[i].threshold)),
                                  ![i].emissions = IF LeakFound(trend, campaigns[i].threshold)
                                                   THEN @ + 1 ELSE @]
          ELSE /\ activeTimers' = activeTimers
               /\ emitted' = << >>
               /\ campaigns' = counted
    /\ result' = NoResult
    /\ lastOp' = Op("leakTick", i)
    /\ thrown' = ""
    /\ invoked' = << >>
    /\ UNCHANGED <<configVars, callerVars, interval, gcTrackingInterval, nextTimerId, historyVars,
                   logVars, cpuVars, performanceImpact, now, listeners, sampled, ticks,
                   gcTicks, starts, stoppedSince, superseded, registrations>>

(* --------------------------- memory pressure --------------------------- *)

\* getMemoryBreakdown(), from process.memoryUsage(), os.totalmem(), os.freemem()
GetMemoryBreakdown(memoryUsage, totalMemory, freeMemory) ==
    [rss |-> memoryUsage.rss, heapTotal |-> memoryUsage.heapTotal,
     heapUsed |-> memoryUsage.heapUsed, external |-> memoryUsage.external,
     arrayBuffers |-> memoryUsage.arrayBuffers,
     totalSystemMemory |-> totalMemory,
     freeSystemMemory |-> freeMemory,
     usedSystemMemory |-> totalMemory - freeMemory,
     heapUtilization |-> Div(memoryUsage.heapUsed, memoryUsage.heapTotal),
     systemMemoryUtilization |-> Div(totalMemory - freeMemory, totalMemory)]

\* r > k for a number r and an integer k >= 0 (false for NaN)
GreaterThanInt(r, k) ==
    IF r.den = 0 THEN r.num = 1
    ELSE \/ r.num \div r.den > k
         \/ r.num \div r.den = k /\ r.num % r.den > 0

\* (x * 100).toFixed(1) of a utilization x, as a count of tenths of a percent
ToFixed1Percent(x) == (2 * 1000 * x.num + x.den) \div (2 * x.den)

\* (rate / 1024).toFixed(2), as a count of hundredths; Infinity prints as itself
ToFixed2KB(rate) ==
    IF rate.den = 0 THEN rate ELSE ToFixed2(DivInt(rate, 1024))

\* faulty variant of AtLeastMedium: the rule records its factor and leaves the level
LevelUnchanged(level) == level

\* faulty variant of AtLeastMedium: the level is set to 'medium' whatever it was
AlwaysMedium(level) == "medium"

\* detectMemoryPressure: if (pressureLevel === 'low') pressureLevel = 'medium'
AtLeastMedium(level) == IF level = "low" THEN "medium" ELSE level

\* detectMemoryPressure(), from the breakdown read and the current trend
DetectMemoryPressureResult(breakdown, trend) ==
    LET heapCritical == Greater(breakdown.heapUtilization, [num |-> 9, den |-> 10])
        heapHigh == ~heapCritical
                      /\ Greater(breakdown.heapUtilization, [num |-> 75, den |-> 100])
        heapFactor == [text |-> "Heap utilization is %",
                       value |-> ToFixed1Percent(breakdown.heapUtilization)]
        factors1 == IF heapCritical \/ heapHigh THEN << heapFactor >> ELSE << >>
        level1 == IF heapCritical THEN "critical"
                  ELSE IF heapHigh THEN "high"
                  ELSE "low"
        systemHigh == Greater(breakdown.systemMemoryUtilization, [num |-> 9, den |-> 10])
        factors2 == IF systemHigh
                    THEN Append(factors1,
                                [text |-> "System memory utilization is %",
                                 value |-> ToFixed1Percent(breakdown.systemMemoryUtilization)])
                    ELSE factors1
        level2 == IF systemHigh /\ level1 # "critical" THEN "high" ELSE level1
        overThreshold == breakdown.heapUsed > threshold
        factors3 == IF overThreshold
                    THEN Append(factors2, [text |-> "Memory usage exceeds threshold"])
                    ELSE factors2
        level3 == IF overThreshold THEN AtLeastMedium(level2) ELSE level2
        rapid == /\ trend.kind # "null"
                 /\ trend.direction = "increasing"
                 /\ GreaterThanInt(trend.rate, RapidRate)
        factors4 == IF rapid
                    THEN Append(factors3,
                                [text |-> "Memory is increasing rapidly ( KB/s)",
                                 value |-> ToFixed2KB(trend.rate)])
                    ELSE factors3
        level4 == IF rapid THEN AtLeastMedium(level3) ELSE level3
    IN [isUnderPressure |-> Len(factors4) > 0,
        pressureLevel |-> level4,
        factors |-> factors4]

\* detectMemoryPressure() called by the user; the breakdown it read is kept as
\* the argument of the operation
DetectMemoryPressure(memoryUsage, totalMemory, freeMemory) ==
    /\ constructed
    /\ LET breakdown == GetMemoryBreakdown(memoryUsage, totalMemory, freeMemory) IN
         /\ result' = DetectMemoryPressureResult(breakdown, AnalyzeMemoryTrend(history))
         /\ lastOp' = Op("detectMemoryPressure", breakdown)
    /\ thrown' = ""
    /\ emitted' = << >>
    /\ invoked' = << >>
    /\ UNCHANGED <<configVars, leakVars, callerVars, timerVars, historyVars, logVars, cpuVars,
                   performanceImpact, now, listeners, sampled, ticks, gcTicks, starts,
                   stoppedSince, superseded, registrations>>

(* ------------------------------ statistics ----------------------------- *)

\* getPerformanceImpact()
GetPerformanceImpact ==
    IF performanceImpact.count = 0
    THEN [averageTimeMs |-> Div(0, 1), totalTimeMs |-> Div(0, 1), count |-> 0]
    ELSE [averageTimeMs |-> DivInt(Div(performanceImpact.time, performanceImpact.count),
                                   NsPerMs),
          totalTimeMs |-> Div(performanceImpact.time, NsPerMs),
          count |-> performanceImpact.count]

\* calculateAverageMemory()
CalculateAverageMemory ==
    IF Len(history) = 0 THEN Div(0, 1)
    ELSE Div(SumSeq([i \in 1..Len(history) |-> history[i].memoryUsage.heapUsed]),
             Len(history))

\* faulty variant of GetPeakMemory: the loop compares with >=, so the last of
\* several maximal entries wins
GetPeakMemoryLastWins ==
    IF Len(history) = 0 THEN [value |-> 0, timestamp |-> now]
    ELSE LET peak == CHOOSE i \in 1..Len(history) :
                       /\ \A j \in 1..Len(history) :
                            history[j].memoryUsage.heapUsed <= history[i].memoryUsage.heapUsed
                       /\ \A j \in (i + 1)..Len(history) :
                            history[j].memoryUsage.heapUsed < history[i].memoryUsage.heapUsed
         IN [value |-> history[peak].memoryUsage.heapUsed,
             timestamp |-> history[peak].timestamp]

\* getPeakMemory(): the first entry that no entry exceeds
GetPeakMemory ==
    IF Len(history) = 0 THEN [value |-> 0, timestamp |-> now]
    ELSE LET peak == CHOOSE i \in 1..Len(history) :
                       /\ \A j \in 1..Len(history) :
                            history[j].memoryUsage.heapUsed <= history[i].memoryUsage.heapUsed
                       /\ \A j \in 1..(i - 1) :
                            history[j].memoryUsage.heapUsed < history[i].memoryUsage.heapUsed
         IN [value |-> history[peak].memoryUsage.heapUsed,
             timestamp |-> history[peak].timestamp]

\* getStatistics: the average of the recorded CPU deltas
AverageCpu ==
    LET n == Len(cpuUsageHistory) IN
    IF n = 0 THEN [user |-> Div(0, 1), system |-> Div(0, 1)]
    ELSE [user |-> Div(SumSeq([i \in 1..n |-> cpuUsageHistory[i].cpuUsage.user]), n),
          system |-> Div(SumSeq([i \in 1..n |-> cpuUsageHistory[i].cpuUsage.system]), n)]

\* getStatistics() called by the user when process.memoryUsage() is memoryUsage
\* and process.cpuUsage() has grown by cpuDelta since it was last read;
\* cpu.current comes from getCpuUsage(), which stores the new reading
GetStatistics(memoryUsage, cpuDelta) ==
    /\ constructed
    /\ LET cpuNow == CpuAdd(procCpu, cpuDelta) IN
         /\ result' = [kind |-> "statistics",
                       memory |-> [current |-> memoryUsage,
                                   average |-> CalculateAverageMemory,
                                   peak |-> GetPeakMemory,
                                   trend |-> AnalyzeMemoryTrend(history)],
                       cpu |-> [current |-> CpuDiff(cpuNow, lastCpuUsage),
                                average |-> AverageCpu],
                       performance |-> GetPerformanceImpact,
                       gc |-> [count |-> Len(gcHistory),
                               lastUpdate |-> IF Len(gcHistory) > 0
                                              THEN gcHistory[Len(gcHistory)].timestamp
                                              ELSE Null]]
         /\ procCpu' = cpuNow
         /\ lastCpuUsage' = cpuNow
    /\ lastOp' = Op("getStatistics", 0)
    /\ thrown' = ""
    /\ emitted' = << >>
    /\ invoked' = << >>
    /\ UNCHANGED <<configVars, leakVars, callerVars, timerVars, historyVars, logVars,
                   performanceImpact, now, listeners, sampled, ticks, gcTicks, starts,
                   stoppedSince, superseded, registrations>>

\* getPeakMemory() or calculateAverageMemory() called by the user
MemorySummaryCall(name, value) ==
    /\ constructed
    /\ result' = [kind |-> name, value |-> value]
    /\ lastOp' = Op(name, 0)
    /\ thrown' = ""
    /\ emitted' = << >>
    /\ invoked' = << >>
    /\ UNCHANGED <<configVars, leakVars, callerVars, timerVars, historyVars, logVars,
                   cpuVars, performanceImpact, now, listeners, sampled, ticks, gcTicks,
                   starts, stoppedSince, superseded, registrations>>

GetPeakMemoryCall == MemorySummaryCall("getPeakMemory", GetPeakMemory)
CalculateAverageMemoryCall ==
    MemorySummaryCall("calculateAverageMemory", CalculateAverageMemory)

\* typeof v of a returned value v
TypeOf(v) ==
    IF v.kind = "undefined" THEN "undefined"
    ELSE IF v.kind = "number" THEN "number"
    ELSE "object"

\* getPerformanceImpact() called by the user
GetPerformanceImpactCall ==
    /\ constructed
    /\ result' = [kind |-> "performanceImpact", value |-> GetPerformanceImpact]
    /\ lastOp' = Op("getPerformanceImpact", 0)
    /\ thrown' = ""
    /\ emitted' = << >>
    /\ invoked' = << >>
    /\ UNCHANGED <<configVars, leakVars, callerVars, timerVars, historyVars, logVars,
                   cpuVars, performanceImpact, now, listeners, sampled, ticks, gcTicks,
                   starts, stoppedSince, superseded, registrations>>

(* ------------------------ heap snapshots, exports ---------------------- *)

\* a takeHeapSnapshot or exportReport call: the locals of the async function,
\* the state of the promise it returned (stage "resolved" or "rejected" once
\* settled), the file it wrote (onDisk once the write completed), and counts
\* of the events emitted for it
Task(kind, automatic, stage, format, path, text, samples) ==
    [kind |-> kind, automatic |-> automatic, caught |-> automatic, stage |-> stage,
     format |-> format, path |-> path, text |-> text, written |-> Null,
     onDisk |-> FALSE, error |-> "", samplesAtCall |-> samples, emissions |-> 0,
     errors |-> 0]

\* this.emit('error', error), and once more by the catch handler that
\* automaticHeapDump attached to the promise
ErrorEvents(task, message) ==
    IF task.caught THEN << Event("error", message), Event("error", message) >>
    ELSE << Event("error", message) >>

\* a rejection that takeHeapSnapshot's try block does not see: only the catch
\* handler of automaticHeapDump emits
RejectionEvents(task, message) ==
    IF task.caught THEN << Event("error", message) >> ELSE << >>

Rejected(task, message, events) ==
    [task EXCEPT !.stage = "rejected", !.error = message,
                 !.errors = CountNamed(events, "error")]

\* faulty variant of SnapshotEvent: the automatic flag is not passed on
SnapshotEventWithoutFlag(task, filePath) ==
    Event("heapSnapshot", [filePath |-> filePath, automatic |-> FALSE])

\* this.emit('heapSnapshot', filePath, automatic)
SnapshotEvent(task, filePath) ==
    Event("heapSnapshot", [filePath |-> filePath, automatic |-> task.automatic])

\* an async function was called and returned its promise
Called(name, task, value) ==
    /\ constructed
    /\ Len(tasks) < MaxTasks
    /\ tasks' = Append(tasks, task)
    /\ result' = value
    /\ lastOp' = Op(name, Len(tasks) + 1)
    /\ thrown' = ""
    /\ invoked' = << >>
    /\ UNCHANGED <<configVars, leakVars, held, timerVars, historyVars, logVars, cpuVars,
                   performanceImpact, now, listeners, sampled, ticks, gcTicks, starts,
                   stoppedSince, superseded, registrations>>

\* a step of task i that the runtime resumed: the task and the events emitted
Resumed(name, i, task, events) ==
    /\ tasks' = [tasks EXCEPT ![i] = task]
    /\ emitted' = events
    /\ lastOp' = Op(name, i)
    /\ thrown' = ""
    /\ invoked' = << >>
    /\ result' = NoResult
    /\ UNCHANGED <<configVars, leakVars, held, timerVars, historyVars, logVars, cpuVars,
                   performanceImpact, now, listeners, sampled, ticks, gcTicks, starts,
                   stoppedSince, superseded, registrations>>

\* takeHeapSnapshot() called directly: it runs up to await this.checkDiskSpace()
TakeHeapSnapshot ==
    /\ Called("takeHeapSnapshot",
              Task("snapshot", FALSE, "disk", "heapsnapshot", Null, Null, 0),
              [kind |-> "promise", task |-> Len(tasks) + 1])
    /\ emitted' = << >>

\* automaticHeapDump(limit) when process.memoryUsage() is memoryUsage
AutomaticHeapDump(limit, memoryUsage, totalMemory, freeMemory) ==
    LET breakdown == GetMemoryBreakdown(memoryUsage, totalMemory, freeMemory) IN
    /\ emitted' = << >>
    /\ IF Greater(breakdown.heapUtilization, limit)
       THEN Called("automaticHeapDump",
                   Task("snapshot", TRUE, "disk", "heapsnapshot", Null, Null, 0),
                   NoResult)
       ELSE /\ constructed
            /\ result' = NoResult
            /\ lastOp' = Op("automaticHeapDump", 0)
            /\ thrown' = ""
            /\ invoked' = << >>
            /\ UNCHANGED <<configVars, leakVars, callerVars, timerVars, historyVars, logVars,
                           cpuVars, performanceImpact, now, listeners, sampled, ticks,
                           gcTicks, starts, stoppedSince, superseded, registrations>>

\* checkDiskSpace() resolved with diskSpace; v8.getHeapSnapshot() throws or
\* returns the stream that is piped into the file
DiskSpaceChecked(i, diskSpace, snapshotThrows) ==
    /\ i \in DOMAIN tasks
    /\ tasks[i].kind = "snapshot"
    /\ tasks[i].stage = "disk"
    /\ LET message == IF diskSpace < MinDiskSpace
                      THEN "Insufficient disk space for heap snapshot"
                      ELSE "getHeapSnapshot failed"
           filePath == << "heap-", 1000 * epoch + now, ".heapsnapshot" >>
       IN IF diskSpace < MinDiskSpace \/ snapshotThrows
          THEN Resumed("checkDiskSpace", i,
                       Rejected(tasks[i], message, ErrorEvents(tasks[i], message)),
                       ErrorEvents(tasks[i], message))
          ELSE Resumed("checkDiskSpace", i,
                       [tasks[i] EXCEPT !.stage = "writing", !.path = filePath],
                       << >>)

\* the pipe of task i ends: writeStream 'finish', or 'error' of either stream
StreamSettled(i, outcome) ==
    /\ i \in DOMAIN tasks
    /\ tasks[i].kind = "snapshot"
    /\ tasks[i].stage = "writing"
    /\ IF outcome = "finish"
       THEN Resumed("finish", i,
                    [tasks[i] EXCEPT !.stage = "resolved", !.written = "heap snapshot",
                                     !.onDisk = TRUE, !.emissions = @ + 1],
                    << SnapshotEvent(tasks[i], tasks[i].path) >>)
       ELSE Resumed("streamError", i,
                    Rejected(tasks[i], outcome, RejectionEvents(tasks[i], outcome)),
                    RejectionEvents(tasks[i], outcome))

\* JSON.stringify of a number: NaN and Infinity are written as null
JsonNumber(r) == IF r.den = 0 THEN Null ELSE r

\* exportReport: the report object
Report(memoryUsage) ==
    [memoryHistory |-> history,
     cpuHistory |-> cpuUsageHistory,
     gcHistory |-> gcHistory,
     summary |-> [totalSamples |-> Len(history),
                  averageMemoryUsage |-> CalculateAverageMemory,
                  peakMemoryUsage |-> GetPeakMemory,
                  currentMemory |-> memoryUsage,
                  performanceImpact |-> GetPerformanceImpact],
     exportedAt |-> 1000 * epoch + now]

\* JSON.stringify(report, null, 2), as the value JSON.parse reads back
JsonStringify(report) ==
    [report EXCEPT
       !.summary.averageMemoryUsage = JsonNumber(@),
       !.summary.performanceImpact.averageTimeMs = JsonNumber(@),
       !.summary.performanceImpact.totalTimeMs = JsonNumber(@)]

\* convertToCSV(report): the header and one row per entry of this.history
ConvertToCSV(report) ==
    << << "Timestamp", "Heap Used (bytes)", "Heap Total (bytes)", "RSS (bytes)",
          "External (bytes)" >> >>
    \o [i \in 1..Len(history) |->
          << history[i].timestamp, history[i].memoryUsage.heapUsed,
             history[i].memoryUsage.heapTotal, history[i].memoryUsage.rss,
             history[i].memoryUsage.external >>]

\* exportReport: filePath || path.join(os.tmpdir(), ...)
FinalPath(format, filePath) ==
    IF filePath # Undefined /\ filePath[1] # ""
    THEN filePath[1]
    ELSE << "memvigil-report-", 1000 * epoch + now, format >>

\* exportReport(format, filePath) when process.memoryUsage() is memoryUsage:
\* it runs up to await fs.promises.writeFile(...), or to its end for a
\* format that is neither 'json' nor 'csv'
ExportReport(format, filePath, memoryUsage) ==
    LET report == Report(memoryUsage)
        finalPath == FinalPath(format, filePath)
        text == IF format = "json" THEN JsonStringify(report)
                ELSE IF format = "csv" THEN ConvertToCSV(report)
                ELSE Null
        writes == format \in {"json", "csv"}
        task == Task("export", FALSE, IF writes THEN "writing" ELSE "resolved",
                     format, finalPath, text, Len(history))
    IN /\ Called("exportReport",
                 IF writes THEN task ELSE [task EXCEPT !.emissions = 1],
                 [kind |-> "promise", task |-> Len(tasks) + 1])
       /\ emitted' = IF writes THEN << >>
                     ELSE << Event("reportExported",
                                   [filePath |-> finalPath, format |-> format]) >>

\* faulty variant of WrittenText: the report is serialized when the file is
\* written, from the history as it is then
WrittenTextOfLiveHistory(task) ==
    IF task.format = "json" THEN [task.text EXCEPT !.memoryHistory = history]
    ELSE task.text

\* fs.promises.writeFile(finalPath, text): the text handed over at the call
WrittenText(task) == task.text

\* fs.promises.writeFile of task i settles
WriteSettled(i, failure) ==
    /\ i \in DOMAIN tasks
    /\ tasks[i].kind = "export"
    /\ tasks[i].stage = "writing"
    /\ IF failure = ""
       THEN Resumed("writeFile", i,
                    [tasks[i] EXCEPT !.stage = "resolved",
                                     !.written = WrittenText(tasks[i]),
                                     !.onDisk = TRUE, !.emissions = @ + 1],
                    << Event("reportExported",
                             [filePath |-> tasks[i].path, format |-> tasks[i].format]) >>)
       ELSE Resumed("writeFile", i, Rejected(tasks[i], failure, << >>), << >>)

(* --------------------------- specifications ---------------------------- *)

Start == \E i \in Intervals : StartMonitoring(i)
MainTick == \E t \in activeTimers : Tick(t)
GcTimerTick == \E t \in activeTimers : GcTick(t)

Next ==
    \/ Start
    \/ StopMonitoring
    \/ MainTick
    \/ GcTimerTick
    \/ ClearHistory

\* sampling, timers and histories, over every constructor argument
Spec == Init /\ [][Next]_vars

\* alert thresholds: a fixed threshold and capacity, every alert configuration
InitAlert ==
    \E o \in AlertOptions : Constructor(2, MinTrendSamples, o)

NextAlert ==
    \/ Start
    \/ StopMonitoring
    \/ MainTick
    \/ ClearHistory

SpecAlert == InitAlert /\ [][NextAlert]_vars

\* listeners of 'thresholdExceeded': one configuration, registrations in any order
InitNotify ==
    Constructor(2, 2, OptionsOf(<<FALSE>>, <<FALSE>>, Undefined, Undefined))

Notify == \E cb \in Callbacks : NotifyOnThresholdExceeded(cb)

NextNotify ==
    \/ Start
    \/ StopMonitoring
    \/ MainTick
    \/ Notify
    \/ OnThresholdExceeded

SpecNotify == InitNotify /\ [][NextNotify]_vars

(* ------------------- the trend of synthetic histories ------------------ *)

TrendStarts == {0, TickMs}                 \* timestamp of the first sample
TrendBases == {3000, 3500, 4000, 4500}     \* heapUsed of the first sample
TrendSteps == {-500, 0, 500, 1000}         \* growth of heapUsed per tick

\* n samples, one per tick of TickMs, heapUsed growing by step per tick
SyntheticHistory(n, t0, y0, step) ==
    [i \in 1..n |-> [timestamp |-> t0 + (i - 1) * TickMs,
                     memoryUsage |-> MemoryUsageOf(y0 + (i - 1) * step)]]

\* a monitor of threshold t constructed at second e of the clock that recorded
\* h with startMonitoring(TickMs) and was stopped
RecordedWith(t, e, h) ==
    /\ epoch = e
    /\ Construct(t, 1000, OptionsOf(<<FALSE>>, Undefined, Undefined, Undefined))
    /\ history = h
    /\ memLog = h
    /\ cpuUsageHistory = [i \in 1..Len(h) |->
                            [timestamp |-> h[i].timestamp, cpuUsage |-> [user |-> 1, system |-> 0]]]
    /\ cpuLog = cpuUsageHistory
    /\ lastCpuUsage = [user |-> Len(h), system |-> 0]
    /\ procCpu = lastCpuUsage
    /\ performanceImpact = [time |-> 2000 * Len(h), count |-> Len(h)]
    /\ now = IF h = << >> THEN 0 ELSE h[Len(h)].timestamp
    /\ ticks = Len(h)
    /\ starts = 1
    /\ nextTimerId = 2
    /\ stoppedSince = TRUE

RecordedAt(e, h) == RecordedWith(100 * BytesPerMB, e, h)
Recorded(h) == RecordedAt(0, h)

InitTrend ==
    \E n \in MinTrendSamples..MaxTrendLen, t0 \in TrendStarts,
       y0 \in TrendBases, step \in TrendSteps :
        Recorded(SyntheticHistory(n, t0, y0, step))

NextTrend == AnalyzeMemoryTrendCall

SpecTrend == InitTrend /\ [][NextTrend]_vars

(* ------------- the trend window: histories of every length ------------ *)

WindowOlds == {2, 3, 9}      \* heapUsed of the samples older than the last 10
WindowBases == {2, 3, 4}     \* heapUsed the last 10 samples grow from
WindowSteps == {0, 1}        \* growth of heapUsed per tick over the last 10

\* n samples, one per tick of TickMs: the last TrendWindow of them grow from
\* heapUsed base by step per tick, the ones before them have heapUsed old
WindowHistory(n, old, base, step) ==
    [i \in 1..n |->
        [timestamp |-> i * TickMs,
         memoryUsage |-> MemoryUsageOf(IF i <= n - TrendWindow THEN old
                                       ELSE base + step * (i - 1))]]

InitWindow ==
    \E n \in 0..MaxWindowLen, old \in WindowOlds, base \in WindowBases,
       step \in WindowSteps :
        Recorded(WindowHistory(n, old, base, step))

NextWindow == AnalyzeMemoryTrendCall

SpecWindow == InitWindow /\ [][NextWindow]_vars

(* ------------- the trend of an idle process on a real clock ------------ *)

EpochBase == 1700000000          \* a clock reading of 2023, in seconds
Epochs == { EpochBase + k : k \in 0..MaxEpochOffset }
IdleHeaps == {2, 3, 4, 5}        \* the heapUsed every sample of a history shows

InitEpoch ==
    \E e \in Epochs, n \in MinTrendSamples..MaxTrendLen, t0 \in TrendStarts,
       y \in IdleHeaps :
        RecordedAt(e, SyntheticHistory(n, t0, y, 0))

NextEpoch == AnalyzeMemoryTrendCall

SpecEpoch == InitEpoch /\ [][NextEpoch]_vars

(* ------------------- leak detection: a single campaign ----------------- *)

LeakDurations == {250, 60000}
LeakThresholds == { [num |-> 0, den |-> 1], [num |-> 1, den |-> 10] }
LeakSampleCounts == {-1, 0, 1, 2, 3, 5}
\* heapUsed in bytes read by a campaign
LeakHeaps == {1000000, 1100000, 1150000, 1300000, 1500000, 1600000}

InitLeak ==
    Constructor(100 * BytesPerMB, 2, OptionsOf(<<FALSE>>, <<FALSE>>, Undefined, Undefined))

LeakCall ==
    \E d \in LeakDurations, limit \in LeakThresholds, n \in LeakSampleCounts :
        DetectLeaks(d, limit, n)

LeakTimerTick ==
    \E i \in DOMAIN campaigns, heapUsed \in LeakHeaps : LeakTick(i, heapUsed)

NextLeak ==
    \/ campaigns = << >> /\ LeakCall
    \/ LeakTimerTick

SpecLeak == InitLeak /\ [][NextLeak]_vars

\* the runtime fires every timer that stays set
FairSpecLeak == SpecLeak /\ WF_vars(LeakTimerTick)

(* ------------- leak detection beside a running monitor ----------------- *)

\* the detectLeaks calls explored: (duration, threshold, samples)
OverlapCalls ==
    { [duration |-> 250, threshold |-> [num |-> 1, den |-> 10], samples |-> 2],
      [duration |-> 250, threshold |-> [num |-> 1, den |-> 2], samples |-> 1] }

InitOverlap ==
    Constructor(2, 2, OptionsOf(Undefined, <<FALSE>>, Undefined, Undefined))

OverlapCall ==
    \E call \in OverlapCalls : DetectLeaks(call.duration, call.threshold, call.samples)

OverlapTimerTick ==
    \E i \in DOMAIN campaigns, reading \in ProcessReadings :
        LeakTick(i, reading.memoryUsage.heapUsed)

\* timer callbacks run so far: main, GC and leak detection
CallbacksRun ==
    ticks + gcTicks + SumSeq([i \in DOMAIN campaigns |-> campaigns[i].measurementCount])

\* the monitor is started once; its timers and the campaigns' timers fire in
\* any order
NextOverlap ==
    \/ interval = Null /\ StartMonitoring(MinInterval)
    \/ CallbacksRun < MaxCallbacks /\ MainTick
    \/ CallbacksRun < MaxCallbacks /\ GcTimerTick
    \/ OverlapCall
    \/ CallbacksRun < MaxCallbacks /\ OverlapTimerTick

SpecOverlap == InitOverlap /\ [][NextOverlap]_vars

(* --------------- leak detection interrupted by the caller -------------- *)

InitInterrupt ==
    Constructor(2, 2, OptionsOf(<<FALSE>>, <<FALSE>>, Undefined, Undefined))

\* a detectLeaks promise is pending
InFlight == \E i \in DOMAIN campaigns : ~ campaigns[i].resolved

\* the monitor is started once and ticks, and one campaign is run; while it
\* is in flight the caller stops the monitor and clears the histories at will
NextInterrupt ==
    \/ starts = 0 /\ StartMonitoring(MinInterval)
    \/ ticks < MaxInterruptTicks /\ MainTick
    \/ campaigns = << >> /\ OverlapCall
    \/ OverlapTimerTick
    \/ InFlight /\ interval # Null /\ StopMonitoring
    \/ InFlight /\ ClearHistory

SpecInterrupt == InitInterrupt /\ [][NextInterrupt]_vars

\* the runtime fires every timer that stays set
FairSpecInterrupt == SpecInterrupt /\ WF_vars(OverlapTimerTick)

(* --------------------------- memory pressure --------------------------- *)

PressureThresholds == {70, 1000}
\* process.memoryUsage() at the call: heapUsed of a heapTotal of 100
PressureHeaps == {60, 75, 76, 90, 91, 95}
PressureMemoryUsage(heapUsed) ==
    [rss |-> 120, heapTotal |-> 100, heapUsed |-> heapUsed, external |-> 1,
     arrayBuffers |-> 0]
\* os.totalmem() and the values of os.freemem()
TotalMemory == 100
FreeMemories == {5, 10, 50}

\* no history, or one of at least 5 samples: constant or rising by one byte
\* per tick.  On a real clock the slope kept is 0, NaN or infinite: a finite
\* slope between doubles that is not 0 does not fit the integers of the model.
InitPressure ==
    \E t \in PressureThresholds, e \in {0, EpochBase, EpochBase + 1},
       n \in {0, MinTrendSamples}, step \in {0, 1} :
        LET h == SyntheticHistory(n, TickMs, 2, step) IN
        /\ RecordedWith(t, e, h)
        /\ \/ e = 0
           \/ n = 0
           \/ step = 0
           \/ SlopeDenominator([i \in 1..n |-> h[i].timestamp]).sign = 0

PressureCall ==
    \E heapUsed \in PressureHeaps, freeMemory \in FreeMemories :
        DetectMemoryPressure(PressureMemoryUsage(heapUsed), TotalMemory, freeMemory)

NextPressure == PressureCall

SpecPressure == InitPressure /\ [][NextPressure]_vars

(* ------------------------------ statistics ----------------------------- *)

\* the growth of process.cpuUsage() between the last reading and a call
StatisticsCpuDeltas == { ZeroCpu, [user |-> 1, system |-> 1] }

InitStatistics ==
    Constructor(2, MinTrendSamples, OptionsOf(Undefined, <<FALSE>>, Undefined, Undefined))

StatisticsCall ==
    \E reading \in ProcessReadings, cpuDelta \in StatisticsCpuDeltas :
        GetStatistics(reading.memoryUsage, cpuDelta)

\* one monitoring run with its main and GC ticks, and getStatistics() at any
\* moment of it
NextStatistics ==
    \/ starts = 0 /\ StartMonitoring(MinInterval)
    \/ MainTick
    \/ GcTimerTick
    \/ procCpu.user < MaxCpuTime /\ StatisticsCall

SpecStatistics == InitStatistics /\ [][NextStatistics]_vars

(* ------------------------------- reports ------------------------------- *)

InitReport ==
    Constructor(2, 2, OptionsOf(Undefined, <<FALSE>>, Undefined, Undefined))

ReportCall == \E buffer \in Buffers : GetReport(buffer)

\* the value the caller writes into an entry it was given
CallerStamps == {0}

StampCall == \E j \in DOMAIN held.array, stamp \in CallerStamps : StampHeldEntry(j, stamp)

\* one monitoring run with its main and GC ticks; the caller clears the
\* histories, reads reports and writes to what it was given at any moment
NextReport ==
    \/ starts = 0 /\ StartMonitoring(MinInterval)
    \/ CallbacksRun < MaxReportCallbacks /\ MainTick
    \/ CallbacksRun < MaxReportCallbacks /\ GcTimerTick
    \/ ClearHistory
    \/ ReportCall
    \/ PopHeldArray
    \/ StampCall

SpecReport == InitReport /\ [][NextReport]_vars

(* -------------------------------- clock -------------------------------- *)

\* the intervals passed to startMonitoring
ClockIntervals == {1000, 2500, 5000}
\* the delay of the caller's setTimeout after startMonitoring
ReportDelays == {2000}

InitClock == \E o \in TimerOptions : Constructor(2, 2, o)

\* the monitor is started once, when it is constructed
ClockStart == starts = 0 /\ \E i \in ClockIntervals : StartMonitoring(i)

\* setInterval(callback, ms) at time 0: the k-th callback of timer t is due at k * ms
Due(t) == IF t.kind = "main" THEN (ticks + 1) * t.ms ELSE (gcTicks + 1) * t.ms

\* no other timer is due before t
DueFirst(t) == \A u \in activeTimers : Due(t) <= Due(u)

ClockMainTick == \E t \in activeTimers : DueFirst(t) /\ TickAt(t, Due(t))
ClockGcTick == \E t \in activeTimers : DueFirst(t) /\ GcTickAt(t, Due(t))

\* the caller's setTimeout(..., delay) set with startMonitoring expires: the
\* clock reads delay and no callback of an interval timer is due before
ClockElapse ==
    \E delay \in ReportDelays :
        /\ starts > 0
        /\ now < delay
        /\ \A t \in activeTimers : Due(t) >= delay
        /\ now' = delay
        /\ UNCHANGED <<configVars, leakVars, callerVars, timerVars, historyVars, logVars,
                       cpuVars, performanceImpact, listeners, result, lastOp, thrown,
                       emitted, invoked, sampled, ticks, gcTicks, starts, stoppedSince,
                       superseded, registrations>>

ClockReport == GetReport("gc")

\* the timers of one monitoring run fire when they are due
NextClock ==
    \/ ClockStart
    \/ ClockMainTick
    \/ ClockGcTick
    \/ ClockElapse
    \/ ClockReport

SpecClock == InitClock /\ [][NextClock]_vars

(* ------------------------- a listener that stops ----------------------- *)

InitStopper ==
    Constructor(2, MinTrendSamples, OptionsOf(Undefined, Undefined, Undefined, Undefined))

\* monitoring runs, restarted at will, with listeners of 'thresholdExceeded'
\* that stop the monitor
NextStopper ==
    \/ StartMonitoring(MinInterval)
    \/ MainTick
    \/ GcTimerTick
    \/ OnThresholdExceededStop

SpecStopper == InitStopper /\ [][NextStopper]_vars

(* ------------------------ heap snapshots, exports ---------------------- *)

\* what checkDiskSpace() resolves with: stats.bavail * stats.bsize, or 1 GiB
DiskSpaces == {MinDiskSpace - 1, MinDiskSpace, DefaultDiskSpace}
StreamOutcomes == {"finish", "snapshotStream error", "writeStream error"}
WriteFailures == {"", "ENOSPC"}
\* automaticHeapDump's threshold: the default 0.9, and 0 as the test passes
DumpLimits == { [num |-> 9, den |-> 10], [num |-> 0, den |-> 1] }
DumpHeaps == {90, 91}
ExportFormats == {"json", "csv", "xml"}
ExportPaths == {Undefined, << "report.out" >>}

InitCapture ==
    Constructor(2, 2, OptionsOf(<<FALSE>>, <<FALSE>>, Undefined, Undefined))

AutomaticHeapDumpCall ==
    \E limit \in DumpLimits, heapUsed \in DumpHeaps, freeMemory \in FreeMemories :
        AutomaticHeapDump(limit, PressureMemoryUsage(heapUsed), TotalMemory, freeMemory)

DiskSpaceAnswer ==
    \E i \in DOMAIN tasks, diskSpace \in DiskSpaces, snapshotThrows \in BOOLEAN :
        DiskSpaceChecked(i, diskSpace, snapshotThrows)

StreamEnd == \E i \in DOMAIN tasks, outcome \in StreamOutcomes : StreamSettled(i, outcome)

ExportCall ==
    \E format \in ExportFormats, filePath \in ExportPaths, reading \in ProcessReadings :
        ExportReport(format, filePath, reading.memoryUsage)

WriteEnd == \E i \in DOMAIN tasks, failure \in WriteFailures : WriteSettled(i, failure)

\* captures and exports are called and settle in any order
NextCapture ==
    \/ TakeHeapSnapshot
    \/ AutomaticHeapDumpCall
    \/ DiskSpaceAnswer
    \/ StreamEnd
    \/ ExportCall
    \/ WriteEnd

SpecCapture == InitCapture /\ [][NextCapture]_vars

InitExport ==
    Constructor(2, 2, OptionsOf(<<FALSE>>, <<FALSE>>, Undefined, Undefined))

\* exportReport(format) for the formats that are written to a file
ExportToDefaultPath ==
    \E format \in {"json", "csv"} : ExportReport(format, Undefined, MemoryUsageOf(2))

\* one monitoring run; a report is exported, and the histories grow or are
\* cleared while the file is written
NextExport ==
    \/ starts = 0 /\ StartMonitoring(MinInterval)
    \/ CallbacksRun < MaxReportCallbacks /\ MainTick
    \/ ClearHistory
    \/ tasks = << >> /\ ExportToDefaultPath
    \/ WriteEnd

SpecExport == InitExport /\ [][NextExport]_vars

(* --------------------------- the events of a tick --------------------- *)

\* monitors of threshold 2 with a warning threshold, with and without a
\* critical threshold and predictions, of a capacity just below or at the
\* number of samples a trend needs
InitEvents ==
    \E m \in {MinTrendSamples - 1, MinTrendSamples},
       pred \in {Undefined, <<FALSE>>}, crit \in {Undefined, <<2>>} :
        Constructor(2, m, OptionsOf(<<FALSE>>, pred, <<2>>, crit))

\* one monitoring run; the caller clears the histories and asks for the trend
\* at any moment of it
NextEvents ==
    \/ starts = 0 /\ StartMonitoring(MinInterval)
    \/ MainTick
    \/ ClearHistory
    \/ AnalyzeMemoryTrendCall

SpecEvents == InitEvents /\ [][NextEvents]_vars

(* ------------------------- peak and average memory --------------------- *)

InitSummary ==
    Constructor(2, 2, OptionsOf(<<FALSE>>, <<FALSE>>, Undefined, Undefined))

\* one monitoring run on a history of two entries; the caller clears the
\* history and asks for the peak and the average at any moment
NextSummary ==
    \/ starts = 0 /\ StartMonitoring(MinInterval)
    \/ MainTick
    \/ ClearHistory
    \/ GetPeakMemoryCall
    \/ CalculateAverageMemoryCall

SpecSummary == InitSummary /\ [][NextSummary]_vars

(* -------------------------- performance impact ------------------------- *)

\* process.hrtime(start) of a tick, in nanoseconds
ImpactElapsedNs == {2000, 2001, 2500}

InitPerformance ==
    Constructor(2, 2, OptionsOf(<<FALSE>>, <<FALSE>>, Undefined, Undefined))

\* a main tick; the run is explored with one process reading, and with every
\* elapsed time in the MaxImpactTicks ticks before the accumulator collapses
PerformanceTick ==
    /\ ticks < PerfResetCount + MaxImpactTicks
    /\ Len(memLog) < MaxImpactLog
    /\ \E t \in activeTimers, nanoseconds \in ImpactElapsedNs :
         /\ (ticks + MaxImpactTicks < PerfResetCount => nanoseconds = 2000)
         /\ TickCallback(t, now + TickMs, nanoseconds)
         /\ sampled'.memoryUsage = MemoryUsageOf(2)

\* one monitoring run long enough for the accumulator to collapse, with
\* getPerformanceImpact() at any moment of it; the caller clears the histories
\* every MaxImpactLog ticks
NextPerformance ==
    \/ starts = 0 /\ StartMonitoring(MinInterval)
    \/ PerformanceTick
    \/ Len(memLog) = MaxImpactLog /\ ClearHistory
    \/ GetPerformanceImpactCall

SpecPerformance == InitPerformance /\ [][NextPerformance]_vars

(* ======================================================================= *)
(*                               the claims                                *)
(* ======================================================================= *)

Min(a, b) == IF a < b THEN a ELSE b
LastN(log, k) == SubSeq(log, Len(log) - k + 1, Len(log))
TickEventNames ==
    {"memoryStats", "cpuStats", "thresholdExceeded", "warningAlert", "criticalAlert",
     "memoryTrend", "gcStats"}
MainTimers == { t \in activeTimers : t.kind = "main" }
GcTimers == { t \in activeTimers : t.kind = "gc" }
programVars == <<threshold, maxHistorySize, enableGC, enablePredictions, alertThresholds,
                 interval, gcTrackingInterval, activeTimers, history, cpuUsageHistory,
                 gcHistory, lastCpuUsage, performanceImpact, listeners>>

\* C1: each of the three history buffers never holds more than maxHistorySize
\* entries, and holds exactly the min(N, maxHistorySize) most recently appended
\* entries, in append order, of the N appended since construction or the last
\* clearHistory.
C1_HistoryKeepsNewest ==
    constructed =>
        /\ Len(history) <= maxHistorySize
        /\ Len(cpuUsageHistory) <= maxHistorySize
        /\ Len(gcHistory) <= maxHistorySize
        /\ history = LastN(memLog, Min(Len(memLog), maxHistorySize))
        /\ cpuUsageHistory = LastN(cpuLog, Min(Len(cpuLog), maxHistorySize))
        /\ gcHistory = LastN(gcLog, Min(Len(gcLog), maxHistorySize))

\* C1 witness: all three buffers have evicted entries
C1_Witness ==
    /\ constructed
    /\ Len(memLog) > maxHistorySize
    /\ Len(cpuLog) > maxHistorySize
    /\ Len(gcLog) > maxHistorySize
    /\ Len(history) = maxHistorySize

\* C2: at most one main timer and at most one GC timer are active, they are the
\* ones the monitor holds the handles of, and no timer that a startMonitoring
\* call replaced is active or has fired.
C2_AtMostOneTimerEach ==
    constructed =>
        /\ Cardinality(MainTimers) <= 1
        /\ Cardinality(GcTimers) <= 1
        /\ \A t \in MainTimers : t.id = interval
        /\ \A t \in GcTimers : t.id = gcTrackingInterval
        /\ \A t \in activeTimers : t.id \notin superseded
        /\ lastOp.name \in {"tick", "gcTick"} => lastOp.arg \notin superseded

\* C2 witness: a tick of the new timer after startMonitoring replaced running timers
C2_Witness ==
    /\ superseded # {}
    /\ lastOp.name = "tick"
    /\ Cardinality(activeTimers) = 2

\* C3: once stopMonitoring has returned, and until startMonitoring succeeds, no
\* step makes a history buffer grow or emits one of the timers' events.
C3_NoTickAfterStop ==
    [][ stoppedSince =>
          /\ Len(history') <= Len(history)
          /\ Len(cpuUsageHistory') <= Len(cpuUsageHistory)
          /\ Len(gcHistory') <= Len(gcHistory)
          /\ \A i \in DOMAIN emitted' : emitted'[i].name \notin TickEventNames
          /\ lastOp'.name \notin {"tick", "gcTick"} ]_vars

\* C3 witness: both timers have fired, the monitor was stopped, callbacks remain
C3_Witness ==
    /\ stoppedSince
    /\ lastOp.name = "stopMonitoring"
    /\ ticks > 0
    /\ gcTicks > 0
    /\ ticks + gcTicks < MaxCallbacks

\* C4: startMonitoring(interval) with interval < 1000 throws and changes nothing:
\* configuration, timer handles, active timers, histories and listeners stay.
C4_InvalidIntervalChangesNothing ==
    [][ (lastOp'.name = "startMonitoring" /\ lastOp'.arg < 1000) =>
          /\ thrown' = "Interval must be at least 1000ms"
          /\ UNCHANGED programVars ]_vars

\* C4 witness: an invalid startMonitoring on a running monitor with history
C4_Witness ==
    /\ lastOp = Op("startMonitoring", 999)
    /\ thrown # ""
    /\ interval # Null
    /\ gcTrackingInterval # Null
    /\ Len(history) > 0

C6_ThresholdExceededPerTick ==
    lastOp.name = "tick" =>
        EventsNamed(emitted, "thresholdExceeded") =
            IF sampled.memoryUsage.heapUsed > threshold
            THEN << Event("thresholdExceeded", sampled.memoryUsage) >>
            ELSE << >>

\* C6 witness: the second of two consecutive ticks above the threshold
C6_Witness ==
    /\ lastOp.name = "tick"
    /\ Len(memLog) >= 2
    /\ memLog[Len(memLog) - 1].memoryUsage.heapUsed > threshold
    /\ sampled.memoryUsage.heapUsed > threshold
    /\ CountNamed(emitted, "thresholdExceeded") = 1

\* C7: a main tick emits criticalAlert (and no warningAlert) whenever
\* alertThresholds.critical is set and heapUsed > critical; otherwise it emits
\* warningAlert whenever alertThresholds.warning is set and heapUsed > warning;
\* otherwise neither.
C7_CriticalBeforeWarning ==
    lastOp.name = "tick" =>
        LET heapUsed == sampled.memoryUsage.heapUsed
            critical == alertThresholds.critical
            warning == alertThresholds.warning
            isCritical == critical # Undefined /\ heapUsed > critical[1]
            isWarning == ~isCritical /\ warning # Undefined /\ heapUsed > warning[1]
        IN /\ CountNamed(emitted, "criticalAlert") = (IF isCritical THEN 1 ELSE 0)
           /\ CountNamed(emitted, "warningAlert") = (IF isWarning THEN 1 ELSE 0)

\* C8: on every thresholdExceeded emission each registration made through
\* notifyOnThresholdExceeded is invoked exactly once, in registration order and
\* with the message of the tick's sample, and ordinary listeners are invoked too;
\* a tick that does not emit invokes none.
C8_EveryRegistrationNotified ==
    lastOp.name = "tick" =>
        IF CountNamed(emitted, "thresholdExceeded") = 1
        THEN /\ Len(invoked) = Len(registrations)
             /\ \A i \in DOMAIN registrations :
                    /\ invoked[i].kind = registrations[i].kind
                    /\ invoked[i].cb = registrations[i].cb
                    /\ registrations[i].kind = "notify" =>
                           invoked[i].arg = [text |-> "Memory threshold exceeded: ",
                                             json |-> sampled.memoryUsage]
                    /\ registrations[i].kind = "listener" =>
                           invoked[i].arg = sampled.memoryUsage
        ELSE invoked = << >>

\* C8 witness: a breach with the same callback registered twice and a listener
C8_Witness ==
    /\ lastOp.name = "tick"
    /\ Len(invoked) = 3
    /\ invoked[1].kind = "notify"
    /\ invoked[2].kind = "listener"
    /\ invoked[3].kind = "notify"
    /\ invoked[1].cb = invoked[3].cb

\* C9: every main tick emits exactly one memoryStats and one cpuStats event, and
\* their payloads are the memory and CPU samples this tick appended as the newest
\* entries of the two histories.
C9_StatsEveryTick ==
    lastOp.name = "tick" =>
        /\ Len(history) > 0
        /\ Len(cpuUsageHistory) > 0
        /\ history[Len(history)].timestamp = now
        /\ cpuUsageHistory[Len(cpuUsageHistory)].timestamp = now
        /\ history[Len(history)].memoryUsage = sampled.memoryUsage
        /\ cpuUsageHistory[Len(cpuUsageHistory)].cpuUsage = sampled.cpuUsage
        /\ EventsNamed(emitted, "memoryStats") =
               << Event("memoryStats", history[Len(history)].memoryUsage) >>
        /\ EventsNamed(emitted, "cpuStats") =
               << Event("cpuStats", cpuUsageHistory[Len(cpuUsageHistory)].cpuUsage) >>

\* C9 witness: a tick whose append evicted an entry
C9_Witness ==
    /\ lastOp.name = "tick"
    /\ Len(memLog) > maxHistorySize
    /\ Len(emitted) >= 2

\* heapUsed grows by `bytes` and the timestamp by `ms` from each sample to the next
RisesBy(h, bytes, ms) ==
    \A i \in 2..Len(h) :
        /\ h[i].timestamp = h[i - 1].timestamp + ms
        /\ h[i].memoryUsage.heapUsed = h[i - 1].memoryUsage.heapUsed + bytes

\* C10: on at least 5 samples whose heapUsed rises by 1000 bytes per 1000 ms tick,
\* analyzeMemoryTrend() returns direction "increasing" and a rate within 1 of
\* 1000 bytes per second; on samples of constant heapUsed it returns "stable".
C10_LinearGrowthIsIncreasing ==
    (lastOp.name = "analyzeMemoryTrend" /\ Len(history) >= 5) =>
        /\ RisesBy(history, 1000, 1000) =>
              /\ result.kind = "trend"
              /\ result.direction = "increasing"
              /\ 999 * result.rate.den < result.rate.num
              /\ result.rate.num < 1001 * result.rate.den
        /\ RisesBy(history, 0, 1000) =>
              /\ result.kind = "trend"
              /\ result.direction = "stable"

\* the samples a history may hold before its last TrendWindow entries
OlderEntries ==
    { [timestamp |-> 0, memoryUsage |-> MemoryUsageOf(y)] : y \in {1, 5, 13} }

\* C11: analyzeMemoryTrend() returns null exactly when fewer than 5 samples are
\* recorded; on a history of 10 or more samples the result is the same whatever
\* the entries before the last 10 are, and is the trend of the last 10 alone.
C11_TrendUsesLastTen ==
    lastOp.name = "analyzeMemoryTrend" =>
        /\ (result.kind = "null") <=> (Len(history) < 5)
        /\ Len(history) >= 10 =>
              LET recent == LastN(history, 10) IN
              /\ result = AnalyzeMemoryTrend(recent)
              /\ \A e \in OlderEntries :
                     AnalyzeMemoryTrend(<<e>> \o recent) = result

\* C11 witness: a trend over 11 samples whose oldest sample lies off the line
\* through the last 10
C11_Witness ==
    /\ lastOp.name = "analyzeMemoryTrend"
    /\ Len(history) = 11
    /\ history[1].memoryUsage.heapUsed = 9
    /\ RisesBy(LastN(history, 10), 1, 1000)
    /\ result.kind = "trend"

\* comparisons of a number [num, den] with an integer k; all are false of NaN
AtLeast(r, k) == IF r.den = 0 THEN r.num = 1 ELSE r.num >= k * r.den
AtMost(r, k) == IF r.den = 0 THEN r.num = -1 ELSE r.num <= k * r.den
Between(r, k) == r.den # 0 /\ -(k * r.den) < r.num /\ r.num < k * r.den
SameNumber(r, q) ==
    /\ ~IsNaN(r) /\ ~IsNaN(q)
    /\ IF r.den = 0 \/ q.den = 0 THEN r = q ELSE r.num * q.den = q.num * r.den

\* C12: every non-null result of analyzeMemoryTrend() has direction "stable"
\* iff |rate| < 100, "increasing" iff rate >= 100 and "decreasing" iff
\* rate <= -100, and its prediction is max(0, latest heapUsed + 3600 * rate),
\* a number that is not negative.
C12_DirectionMatchesRate ==
    (lastOp.name = "analyzeMemoryTrend" /\ result.kind = "trend") =>
        LET rate == result.rate
            latest == history[Len(history)].memoryUsage.heapUsed
            ahead == AddInt(latest, MulInt(rate, 3600))
        IN /\ result.direction = "stable" <=> Between(rate, 100)
           /\ result.direction = "increasing" <=> AtLeast(rate, 100)
           /\ result.direction = "decreasing" <=> AtMost(rate, -100)
           /\ AtLeast(result.prediction, 0)
           /\ SameNumber(result.prediction,
                         IF AtLeast(ahead, 0) THEN ahead ELSE [num |-> 0, den |-> 1])

\* the decision of a campaign as the claims state it, from the readings its
\* own callback took: (last - first) / first > threshold
GrowthAbove(taken, limit) ==
    /\ taken # << >>
    /\ (taken[Len(taken)] - taken[1]) * limit.den > limit.num * taken[1]
LeakTimers == { t \in activeTimers : t.kind = "leak" }
Max(a, b) == IF a > b THEN a ELSE b

\* C13: a campaign emits leakDetected exactly once, in the callback that takes
\* its last measurement, if (last - first) / first of its own measurements is
\* strictly above its threshold, and never otherwise; the payload carries the
\* measurements and a non-empty list of suggestions, and 1,000,000 -> 1,600,000
\* with threshold 0.1 is reported with severity "critical".
C13_LeakDetectedIffGrowth ==
    \A i \in DOMAIN campaigns :
        LET c == campaigns[i]
            found == c.resolved /\ GrowthAbove(c.taken, c.threshold)
        IN /\ c.emissions = (IF found THEN 1 ELSE 0)
           /\ lastOp = Op("leakTick", i) =>
                 IF found
                 THEN /\ Len(emitted) = 1
                      /\ emitted[1].name = "leakDetected"
                      /\ emitted[1].payload.measurements = c.taken
                      /\ emitted[1].payload.suggestions # << >>
                      /\ (/\ c.taken[1] = 1000000
                          /\ c.taken[Len(c.taken)] = 1600000
                          /\ c.threshold = [num |-> 1, den |-> 10])
                            => emitted[1].payload.severity = "critical"
                 ELSE emitted = << >>

\* C13 witness: five measurements that fall and rise between 1,000,000 and
\* 1,600,000, reported as critical with threshold 0.1
C13_Witness ==
    /\ lastOp = Op("leakTick", 1)
    /\ campaigns[1].samples = 5
    /\ campaigns[1].resolved
    /\ campaigns[1].threshold = [num |-> 1, den |-> 10]
    /\ campaigns[1].taken[1] = 1000000
    /\ campaigns[1].taken[2] > campaigns[1].taken[3]
    /\ campaigns[1].taken[5] = 1600000
    /\ Len(emitted) = 1
    /\ emitted[1].payload.severity = "critical"

Rank(severity) ==
    CASE severity = "low" -> 0
      [] severity = "medium" -> 1
      [] severity = "high" -> 2
      [] severity = "critical" -> 3
SeverityGrid == { [num |-> n, den |-> 20] : n \in -4..14 }

\* C14: the severity of every leakDetected payload is "critical" iff
\* trend >= 0.5, "high" iff 0.3 <= trend < 0.5, "medium" iff 0.15 <= trend < 0.3
\* and "low" otherwise, and no larger trend has a lower severity.
C14_SeverityBands ==
    (lastOp.name = "leakTick" /\ emitted # << >>) =>
        LET severity == emitted[1].payload.severity
            n == emitted[1].payload.trend.num
            d == emitted[1].payload.trend.den
        IN /\ severity \in {"low", "medium", "high", "critical"}
           /\ severity = "critical" <=> 2 * n >= d
           /\ severity = "high" <=> (10 * n >= 3 * d /\ 2 * n < d)
           /\ severity = "medium" <=> (100 * n >= 15 * d /\ 10 * n < 3 * d)
           /\ severity = "low" <=> 100 * n < 15 * d
           /\ \A t \in SeverityGrid :
                 /\ t.num * d >= n * t.den => Rank(CalculateLeakSeverity(t)) >= Rank(severity)
                 /\ t.num * d <= n * t.den => Rank(CalculateLeakSeverity(t)) <= Rank(severity)

\* C14 witness: a leak reported with trend exactly 0.5
C14_Witness ==
    /\ lastOp.name = "leakTick"
    /\ emitted # << >>
    /\ emitted[1].payload.trend = [num |-> 1, den |-> 2]
    /\ emitted[1].payload.severity = "critical"

\* C15: a campaign with sampleCount >= 1 takes measurements on a timer of
\* max(floor(duration / sampleCount), 100) ms, resolves with exactly sampleCount
\* measurements, and then its timer is cleared, so it never takes more; the
\* measurements of a leakDetected payload are sampleCount many.
C15_ExactlySampleCount ==
    \A i \in DOMAIN campaigns :
        LET c == campaigns[i] IN
        c.samples >= 1 =>
            /\ Len(c.taken) <= c.samples
            /\ c.resolved <=> Len(c.taken) = c.samples
            /\ c.resolved <=> ~(\E t \in LeakTimers : t.id = c.measureInterval)
            /\ \A t \in LeakTimers :
                  t.id = c.measureInterval => t.ms = Max(c.duration \div c.samples, 100)
            /\ (lastOp = Op("leakTick", i) /\ emitted # << >>) =>
                  Len(emitted[1].payload.measurements) = c.samples

\* C15 witness: a campaign of 3 samples over 250 ms has resolved
C15_Witness ==
    /\ campaigns # << >>
    /\ campaigns[1].samples = 3
    /\ campaigns[1].duration = 250
    /\ campaigns[1].resolved
    /\ Len(campaigns[1].taken) = 3
    /\ LeakTimers = {}

C17_CampaignLeavesMonitorAlone ==
    [][ lastOp'.name \in {"detectLeaks", "leakTick"} =>
          /\ UNCHANGED <<history, cpuUsageHistory, gcHistory, performanceImpact,
                         lastCpuUsage, interval, gcTrackingInterval>>
          /\ MainTimers' = MainTimers
          /\ GcTimers' = GcTimers ]_vars

\* C17 witness: a campaign resolved while the monitor runs with recorded history
C17_Witness ==
    /\ lastOp.name = "leakTick"
    /\ campaigns[lastOp.arg].resolved
    /\ interval # Null
    /\ gcTrackingInterval # Null
    /\ history # << >>
    /\ gcHistory # << >>

\* C18: with several campaigns and the monitor's timers firing in any order,
\* each campaign holds exactly the readings its own callback took, at most its
\* own sampleCount of them, is resolved iff it has taken them all, and emitted
\* leakDetected iff its own first and last reading grew by more than its own
\* threshold, with its own measurements as payload.
C18_CampaignsIndependent ==
    \A i \in DOMAIN campaigns :
        LET c == campaigns[i]
            found == c.resolved /\ GrowthAbove(c.taken, c.threshold)
        IN /\ c.measurements = c.taken
           /\ c.measurementCount = Len(c.taken)
           /\ Len(c.taken) <= Max(c.samples, 1)
           /\ c.resolved <=> (c.taken # << >> /\ Len(c.taken) >= c.samples)
           /\ c.emissions = (IF found THEN 1 ELSE 0)
           /\ (lastOp = Op("leakTick", i) /\ found) =>
                 /\ Len(emitted) = 1
                 /\ emitted[1].payload.measurements = c.taken

\* C18 witness: the second campaign resolved between the two measurements of
\* the first, after a main tick, and the two read different values
C18_Witness ==
    /\ Len(campaigns) = 2
    /\ lastOp = Op("leakTick", 2)
    /\ campaigns[2].resolved
    /\ ~campaigns[1].resolved
    /\ Len(campaigns[1].taken) = 1
    /\ campaigns[1].taken[1] # campaigns[2].taken[1]
    /\ ticks > 0

\* C19: detectMemoryPressure() returns "critical" if heap utilization > 0.9;
\* else "high" if heap utilization > 0.75 or system memory utilization > 0.9;
\* else "medium" if heapUsed > threshold or the trend is increasing with
\* rate > 10000; else "low".  It records one factor per rule that holds and
\* isUnderPressure says whether there is one; heap utilization 0.95 alone
\* gives critical, under pressure, with one factor.
C19_HighestPressureLevel ==
    lastOp.name = "detectMemoryPressure" =>
        LET b == lastOp.arg
            trend == AnalyzeMemoryTrend(history)
            heapCritical == 10 * b.heapUsed > 9 * b.heapTotal
            heapHigh == 4 * b.heapUsed > 3 * b.heapTotal /\ ~heapCritical
            systemHigh == 10 * (b.totalSystemMemory - b.freeSystemMemory)
                            > 9 * b.totalSystemMemory
            overThreshold == b.heapUsed > threshold
            rapid == /\ trend.kind = "trend"
                     /\ trend.direction = "increasing"
                     /\ IF trend.rate.den = 0 THEN trend.rate.num = 1
                        ELSE trend.rate.num \div trend.rate.den >= 10000
                               /\ trend.rate # [num |-> 10000, den |-> 1]
            holding == { r \in {"critical", "heapHigh", "systemHigh", "threshold", "trend"} :
                           \/ r = "critical" /\ heapCritical
                           \/ r = "heapHigh" /\ heapHigh
                           \/ r = "systemHigh" /\ systemHigh
                           \/ r = "threshold" /\ overThreshold
                           \/ r = "trend" /\ rapid }
        IN /\ result.pressureLevel =
                 (IF heapCritical THEN "critical"
                  ELSE IF heapHigh \/ systemHigh THEN "high"
                  ELSE IF overThreshold \/ rapid THEN "medium"
                  ELSE "low")
           /\ Len(result.factors) = Cardinality(holding)
           /\ result.isUnderPressure <=> holding # {}
           /\ holding = {"critical"} =>
                 /\ result.pressureLevel = "critical"
                 /\ result.isUnderPressure
                 /\ Len(result.factors) = 1

\* C19 witness: system memory above 0.9, heapUsed above the threshold and a
\* rapidly increasing trend at heap utilization 0.75: three factors, level high
C19_Witness ==
    /\ lastOp.name = "detectMemoryPressure"
    /\ lastOp.arg.heapUsed = 75
    /\ lastOp.arg.freeSystemMemory = 5
    /\ threshold = 70
    /\ Len(result.factors) = 3
    /\ result.pressureLevel = "high"
    /\ AnalyzeMemoryTrend(history).direction = "increasing"

\* C20: getStatistics() leaves the monitor state unchanged: the histories,
\* the timers, the performance accumulator and the CPU baseline
\* (lastCpuUsage) from which the next tick computes its CPU delta.
C20_GetStatisticsReadOnly ==
    [][lastOp'.name = "getStatistics" =>
         UNCHANGED <<historyVars, timerVars, performanceImpact, lastCpuUsage>>]_vars

\* C30: stopMonitoring() never throws and leaves no main or GC timer and the
\* histories untouched; called on a monitor that is not running (never
\* started, or just stopped) it changes no part of the monitor state.
C30_StopMonitoringIdempotent ==
    [][ lastOp'.name = "stopMonitoring" =>
          /\ thrown' = ""
          /\ interval' = Null
          /\ gcTrackingInterval' = Null
          /\ MainTimers' = {}
          /\ GcTimers' = {}
          /\ UNCHANGED historyVars
          /\ (interval = Null \/ lastOp.name = "stopMonitoring") =>
                UNCHANGED programVars ]_vars

\* C30 witness: a restarted monitor was stopped with both timers gone and
\* samples of both kinds kept, while further callbacks were still explored
C30_Witness ==
    /\ lastOp.name = "stopMonitoring"
    /\ activeTimers = {}
    /\ superseded # {}
    /\ history # << >>
    /\ gcHistory # << >>
    /\ ticks + gcTicks < MaxCallbacks

\* h2 is h with entry pushed at its end, possibly after dropping oldest entries
PushedOnto(h, h2, entry) ==
    /\ h2 # << >>
    /\ h2[Len(h2)] = entry
    /\ Len(h2) <= Len(h) + 1
    /\ SubSeq(h2, 1, Len(h2) - 1) = LastN(h, Len(h2) - 1)

\* C25: a main tick pushes its sample onto the memory history and its CPU
\* delta onto the CPU history and leaves the GC history as it is; a GC tick
\* pushes its snapshot onto the GC history and leaves the memory and CPU
\* histories as they are.
C25_OneWriterPerBuffer ==
    [][ /\ lastOp'.name = "tick" =>
             /\ gcHistory' = gcHistory
             /\ PushedOnto(history, history',
                           [timestamp |-> now', memoryUsage |-> sampled'.memoryUsage])
             /\ PushedOnto(cpuUsageHistory, cpuUsageHistory',
                           [timestamp |-> now', cpuUsage |-> sampled'.cpuUsage])
        /\ lastOp'.name = "gcTick" =>
             /\ history' = history
             /\ cpuUsageHistory' = cpuUsageHistory
             /\ \E gcStats \in HeapStatistics :
                   PushedOnto(gcHistory, gcHistory',
                              [timestamp |-> now', gcStats |-> gcStats]) ]_vars

\* C25 witness: a GC tick ran between main ticks and a main tick after it,
\* with every buffer full
C25_Witness ==
    /\ lastOp.name = "tick"
    /\ gcTicks >= 2
    /\ ticks >= 3
    /\ Len(history) = maxHistorySize
    /\ Len(gcHistory) = maxHistorySize
    /\ gcHistory[Len(gcHistory)].timestamp < history[Len(history)].timestamp
    /\ gcHistory[Len(gcHistory)].timestamp >= history[1].timestamp

\* C22: clearHistory() leaves the memory, CPU and GC histories empty together,
\* and a report accessor called right after it returns an empty sequence.
C22_ClearIsAtomic ==
    [][ /\ lastOp'.name = "clearHistory" =>
             /\ history' = << >>
             /\ cpuUsageHistory' = << >>
             /\ gcHistory' = << >>
        /\ (lastOp.name = "clearHistory"
              /\ lastOp'.name \in {"getMemoryUsageReport", "getCpuUsageReport", "getGCReport"})
             => result'.array = << >> ]_vars

\* C22 witness: after main and GC ticks were recorded, the histories were
\* cleared and the CPU report read: it is empty, as are the other two buffers
C22_Witness ==
    /\ lastOp.name = "getCpuUsageReport"
    /\ result.array = << >>
    /\ ticks > 0
    /\ gcTicks > 0
    /\ memLog = << >>
    /\ gcLog = << >>
    /\ interval # Null

\* C21: when the caller changes a report it was given - the returned array
\* or an entry in it - the memory, CPU and GC histories of the monitor stay
\* as they are.
C21_ReportsAreSnapshots ==
    [][ lastOp'.name \in {"report.pop", "report[j].timestamp="} =>
          UNCHANGED historyVars ]_vars

\* C23: with GC tracking enabled and monitoring started at time 0, the k-th GC
\* snapshot is stamped 5000 * k, whatever interval startMonitoring was given,
\* no snapshot is overdue, and each GC callback appends one snapshot and
\* emits gcStats; with enableGC false there is no GC timer, no snapshot is
\* recorded and gcStats is never emitted.
C23_GcEveryFiveSeconds ==
    /\ (constructed /\ ~enableGC) =>
          /\ gcLog = << >>
          /\ gcHistory = << >>
          /\ GcTimers = {}
          /\ CountNamed(emitted, "gcStats") = 0
    /\ (constructed /\ enableGC /\ starts > 0) =>
          /\ \A k \in DOMAIN gcLog : gcLog[k].timestamp = 5000 * k
          /\ now <= 5000 * (Len(gcLog) + 1)
          /\ Len(gcLog) = gcTicks
          /\ lastOp.name = "gcTick" =>
                /\ now = 5000 * Len(gcLog)
                /\ gcHistory[Len(gcHistory)] = gcLog[Len(gcLog)]
                /\ emitted = << Event("gcStats", gcLog[Len(gcLog)].gcStats) >>

\* C23 witness: the first GC snapshot, after four main ticks of a 1000 ms timer
C23_Witness ==
    /\ lastOp.name = "gcTick"
    /\ now = 5000
    /\ ticks = 4
    /\ \E t \in MainTimers : t.ms = 1000
    /\ Len(gcHistory) = 1

\* C24: with GC tracking enabled, getGCReport() called 2000 ms after
\* startMonitoring(1000) returns a non-empty array whose first entry has a
\* timestamp and the heap statistics.
C24_GcReportAfterTwoSeconds ==
    ( /\ lastOp.name = "getGCReport"
      /\ enableGC
      /\ now = 2000
      /\ \E t \in MainTimers : t.ms = 1000 ) =>
        /\ result.array # << >>
        /\ result.array[1].timestamp > 0
        /\ result.array[1].gcStats \in HeapStatistics

\* C29: a tick during which a listener calls stopMonitoring() still emits
\* what follows thresholdExceeded - memoryStats, cpuStats and, with 5 entries
\* recorded, memoryTrend - and updates the performance accumulator; it leaves
\* no timer active, and a tick only ever fires for the timer the monitor holds.
C29_StoppedTickCompletes ==
    [][ lastOp'.name = "tick" =>
          /\ lastOp'.arg = interval
          /\ (\E i \in DOMAIN invoked' : invoked'[i].cb = "stopMonitoring") =>
                /\ emitted'[1].name = "thresholdExceeded"
                /\ CountNamed(emitted', "memoryStats") = 1
                /\ CountNamed(emitted', "cpuStats") = 1
                /\ CountNamed(emitted', "memoryTrend")
                     = (IF Len(history') >= MinTrendSamples THEN 1 ELSE 0)
                /\ performanceImpact'.count = performanceImpact.count + 1
                /\ performanceImpact'.time > performanceImpact.time
                /\ interval' = Null
                /\ gcTrackingInterval' = Null
                /\ activeTimers' = {} ]_vars

\* C29 witness: the fifth tick exceeded the threshold, its listener stopped
\* the monitor, and the tick went on to emit memoryTrend
C29_Witness ==
    /\ lastOp.name = "tick"
    /\ \E i \in DOMAIN invoked : invoked[i].cb = "stopMonitoring"
    /\ CountNamed(emitted, "memoryTrend") = 1
    /\ interval = Null
    /\ stoppedSince

\* C26: every takeHeapSnapshot or exportReport call that failed has rejected
\* its promise with the failure and had an error event emitted for it.
C26_FailuresOnBothChannels ==
    \A i \in DOMAIN tasks :
        tasks[i].stage = "rejected" =>
            /\ tasks[i].error # ""
            /\ tasks[i].errors >= 1
            /\ lastOp.arg = i /\ lastOp.name \in {"checkDiskSpace", "streamError", "writeFile"}
                 => \E k \in DOMAIN emitted : emitted[k] = Event("error", tasks[i].error)

\* C27: the file a completed exportReport("json", path) wrote holds as many
\* memoryHistory entries, and the totalSamples, that the memory history had
\* when exportReport was called.
C27_ExportCountsAsOfCall ==
    \A i \in DOMAIN tasks :
        (tasks[i].kind = "export" /\ tasks[i].format = "json" /\ tasks[i].stage = "resolved") =>
            /\ Len(tasks[i].written.memoryHistory) = tasks[i].samplesAtCall
            /\ tasks[i].written.summary.totalSamples = tasks[i].samplesAtCall

\* C27 witness: a JSON export completed after the history it was called on
\* had grown and been cleared
C27_Witness ==
    \E i \in DOMAIN tasks :
        /\ tasks[i].kind = "export"
        /\ tasks[i].format = "json"
        /\ tasks[i].stage = "resolved"
        /\ tasks[i].samplesAtCall = 1
        /\ memLog = << >>
        /\ ticks = MaxReportCallbacks
        /\ lastOp = Op("writeFile", i)

\* C28: a capture has had heapSnapshot emitted once if it succeeded, after its
\* file was written, and never otherwise; the event carries the path of the
\* file and automatic = TRUE exactly for a capture automaticHeapDump started.
C28_SnapshotEventOncePerCapture ==
    /\ \A i \in DOMAIN tasks :
          tasks[i].kind = "snapshot" =>
              /\ tasks[i].emissions = (IF tasks[i].stage = "resolved" THEN 1 ELSE 0)
              /\ tasks[i].stage = "resolved" => tasks[i].written = "heap snapshot"
    /\ \A k \in DOMAIN emitted :
          emitted[k].name = "heapSnapshot" =>
              /\ lastOp.name = "finish"
              /\ Len(emitted) = 1
              /\ tasks[lastOp.arg].stage = "resolved"
              /\ emitted[k].payload.filePath = tasks[lastOp.arg].path
              /\ emitted[k].payload.automatic = tasks[lastOp.arg].automatic
    /\ lastOp.name = "finish" => CountNamed(emitted, "heapSnapshot") = 1

\* C28 witness: an automatic capture completed, after a direct one failed for
\* lack of disk space
C28_Witness ==
    /\ Len(tasks) = 2
    /\ ~tasks[1].automatic
    /\ tasks[1].error = "Insufficient disk space for heap snapshot"
    /\ tasks[2].automatic
    /\ lastOp = Op("finish", 2)
    /\ emitted = << SnapshotEvent(tasks[2], tasks[2].path) >>

\* C31: getPerformanceImpact() returns a non-negative number, before any tick
\* and after monitoring has run for several ticks.
C31_PerformanceImpactIsNumber ==
    lastOp.name = "getPerformanceImpact" =>
        /\ TypeOf(result) = "number"
        /\ result.value >= 0

EventRank(name) ==
    CASE name = "thresholdExceeded" -> 1
      [] name \in {"criticalAlert", "warningAlert"} -> 2
      [] name = "memoryStats" -> 3
      [] name = "cpuStats" -> 4
      [] name = "memoryTrend" -> 5

\* C32: within a tick the memory and CPU samples are appended and trimmed
\* before any event of the tick is emitted, the events are emitted in the
\* order thresholdExceeded, criticalAlert or warningAlert, memoryStats,
\* cpuStats, memoryTrend, and a listener of any of them finds the tick's
\* sample as the newest entry of the history.
C32_SampleBeforeEventsInOrder ==
    (constructed /\ lastOp.name = "tick") =>
        /\ \A i, j \in DOMAIN emitted :
              i < j => EventRank(emitted[i].name) < EventRank(emitted[j].name)
        /\ CountNamed(emitted, "memoryStats") = 1
        /\ CountNamed(emitted, "cpuStats") = 1
        /\ ~ sampled.seen.untrimmed
        /\ sampled.seen.newest
             = << [timestamp |-> now, memoryUsage |-> sampled.memoryUsage] >>
        /\ sampled.seen.newestCpu
             = << [timestamp |-> now, cpuUsage |-> sampled.cpuUsage] >>

\* a tick on a full history emitted all five events
C32_Witness ==
    /\ lastOp.name = "tick"
    /\ Len(emitted) = 5
    /\ emitted[2].name = "criticalAlert"
    /\ Len(history) = maxHistorySize

\* C33: memoryTrend is emitted on a tick iff enablePredictions is true and the
\* memory history holds at least 5 entries after that tick's append, and by
\* nothing else; a monitor with maxHistorySize < 5 never emits it and its
\* analyzeMemoryTrend() always returns null; with enablePredictions false it
\* is never emitted although analyzeMemoryTrend() still answers on demand.
C33_TrendEmittedIffEnabledAndFive ==
    constructed =>
        /\ CountNamed(emitted, "memoryTrend")
             = IF lastOp.name = "tick" /\ enablePredictions
                  /\ Len(history) >= MinTrendSamples
               THEN 1 ELSE 0
        /\ (maxHistorySize < MinTrendSamples \/ ~ enablePredictions) =>
               CountNamed(emitted, "memoryTrend") = 0
        /\ lastOp.name = "analyzeMemoryTrend" =>
               (result.kind = "null") = (Len(history) < MinTrendSamples)
        /\ (lastOp.name = "analyzeMemoryTrend" /\ maxHistorySize < MinTrendSamples) =>
               result.kind = "null"

\* the fifth tick of a monitor with predictions emitted memoryTrend
C33_Witness ==
    /\ lastOp.name = "tick"
    /\ enablePredictions
    /\ Len(history) = MinTrendSamples
    /\ ticks = MinTrendSamples
    /\ emitted[Len(emitted)].name = "memoryTrend"

\* C34: between operations the memory history and the CPU history have the
\* same length: each tick appends one entry to each and trims both to
\* maxHistorySize, and clearHistory empties both together.
C34_MemoryAndCpuSameLength ==
    /\ [](constructed => Len(history) = Len(cpuUsageHistory))
    /\ [][(constructed /\ lastOp'.name = "tick" /\ ticks' = ticks + 1) =>
            /\ Len(history') = Min(Len(history) + 1, maxHistorySize)
            /\ Len(cpuUsageHistory') = Min(Len(cpuUsageHistory) + 1, maxHistorySize)]_vars
    /\ [][(constructed /\ lastOp'.name = "clearHistory") =>
            /\ history' = << >>
            /\ cpuUsageHistory' = << >>]_vars

\* a tick on full histories evicted one entry of each
C34_Witness ==
    /\ lastOp.name = "tick"
    /\ Len(memLog) > maxHistorySize
    /\ Len(cpuLog) > maxHistorySize
    /\ Len(history) = maxHistorySize
    /\ Len(cpuUsageHistory) = maxHistorySize

\* C35: whenever exportReport has emitted reportExported(path, format) and
\* resolved with path, the report has been written to that path in that
\* format; a format other than "json" or "csv" yields no reportExported event
\* and no returned path for a file that was never written.
C35_ExportedMeansWritten ==
    /\ \A i \in DOMAIN tasks :
          (tasks[i].kind = "export" /\ (tasks[i].emissions > 0 \/ tasks[i].stage = "resolved")) =>
              /\ tasks[i].onDisk
              /\ tasks[i].format \in {"json", "csv"}
    /\ \A k \in DOMAIN emitted :
          emitted[k].name = "reportExported" =>
              \E i \in DOMAIN tasks :
                  /\ tasks[i].kind = "export" /\ tasks[i].onDisk
                  /\ emitted[k].payload = [filePath |-> tasks[i].path,
                                           format |-> tasks[i].format]

\* C36: stopMonitoring() and clearHistory() do not cancel or alter an
\* in-flight detectLeaks campaign: they leave its state and its timer as they
\* are, and the campaign still takes its remaining measurements, emits
\* leakDetected if its readings grew, and resolves.
C36_CampaignSurvivesStopAndClear ==
    /\ [][lastOp'.name \in {"stopMonitoring", "clearHistory"} =>
            /\ campaigns' = campaigns
            /\ { t \in activeTimers' : t.kind = "leak" }
                 = { t \in activeTimers : t.kind = "leak" }]_vars
    /\ \A i \in 1..MaxCampaigns :
          (i \in DOMAIN campaigns) ~>
              (/\ i \in DOMAIN campaigns
               /\ campaigns[i].resolved
               /\ Len(campaigns[i].taken) = campaigns[i].samples)

\* a campaign emitted leakDetected and resolved after the monitor had been
\* stopped and the histories cleared while it was in flight
C36_Witness ==
    /\ lastOp = Op("leakTick", 1)
    /\ Len(campaigns) = 1
    /\ campaigns[1].resolved
    /\ campaigns[1].emissions = 1
    /\ stoppedSince
    /\ ticks > 0
    /\ memLog = << >>

\* C37: in every detectMemoryPressure result, isUnderPressure is true iff
\* factors is non-empty iff pressureLevel is not "low".
C37_PressureIffFactorsIffNotLow ==
    lastOp.name = "detectMemoryPressure" =>
        /\ result.isUnderPressure = (Len(result.factors) > 0)
        /\ (Len(result.factors) > 0) = (result.pressureLevel # "low")
        /\ result.pressureLevel \in {"low", "medium", "high", "critical"}

\* the threshold rule alone held: one factor, level medium
C37_Witness ==
    /\ lastOp.name = "detectMemoryPressure"
    /\ result.factors = << [text |-> "Memory usage exceeds threshold"] >>
    /\ result.pressureLevel = "medium"
    /\ result.isUnderPressure

\* C39: getPeakMemory() returns the heapUsed and timestamp of the earliest
\* retained history entry whose heapUsed is maximal (value 0 when the history
\* is empty) and calculateAverageMemory() the mean heapUsed of the retained
\* entries (0 when empty); evicted or cleared entries do not count, and the
\* peak value is >= the average whenever the history is non-empty.
C39_PeakAndAverageOfRetained ==
    LET n == Len(history)
        heap(i) == history[i].memoryUsage.heapUsed
        average == CalculateAverageMemory
    IN /\ lastOp.name = "getPeakMemory" =>
            IF n = 0 THEN result.value.value = 0
            ELSE \E i \in 1..n :
                    /\ result.value = [value |-> heap(i), timestamp |-> history[i].timestamp]
                    /\ \A j \in 1..n : heap(j) <= heap(i)
                    /\ \A j \in 1..(i - 1) : heap(j) < heap(i)
       /\ lastOp.name = "calculateAverageMemory" =>
            /\ result.value.den > 0
            /\ result.value.num * n = SumSeq([i \in 1..n |-> heap(i)]) * result.value.den
            /\ n = 0 => result.value.num = 0
       /\ (constructed /\ n > 0) =>
            GetPeakMemory.value * average.den >= average.num

\* the peak of a history holding two entries of equal heapUsed, asked for
\* after a larger entry was evicted
C39_Witness ==
    /\ lastOp.name = "getPeakMemory"
    /\ Len(history) = 2
    /\ history[1].memoryUsage.heapUsed = history[2].memoryUsage.heapUsed
    /\ \E k \in DOMAIN memLog :
          memLog[k].memoryUsage.heapUsed > history[1].memoryUsage.heapUsed
    /\ result.value.timestamp = history[1].timestamp

====
